---- MODULE Spec2Model ----
(***************************************************************************)
(* rfx: the global configuration / registry / resolver snapshot.           *)
(*                                                                         *)
(* The package keeps one atomically swappable pointer `st` to an immutable *)
(* state struct {cfg, ext, reg, res, bld, preg, pres}.  Writers serialise  *)
(* on buildMu, derive a new struct from the loaded one plus the builder,   *)
(* and publish it with st.Store.  Readers do one st.Load and work on the   *)
(* loaded struct.                                                          *)
(*                                                                         *)
(* Heap objects (state structs, registries, resolvers) are identified by   *)
(* small integers.  An object no goroutine can reach any more is          *)
(* collected (Go's garbage collector) and the live ones are renumbered in  *)
(* the order the roots reach them: addresses are only ever compared for    *)
(* equality, and this keeps the model finite without bounding the number   *)
(* of writes.                                                              *)
(***************************************************************************)
EXTENDS Integers, Sequences, FiniteSets, TLC

VARIABLES
    st,       \* atomic.Pointer[state]: address of the published state struct
    snaps,    \* heap of state structs, by address
    regs,     \* heap of registries, by address
    ress,     \* heap of resolvers, by address
    buildMu,  \* holder of the write mutex, or NoOne
    fr,       \* per writer: the frame of its write call (pc, call, old, nreg, nres)
    rd,       \* per reader: the frame of its read call
    held,     \* the instances a caller pinned with SetRegistry / SetResolver
    last,     \* the observed write call: arguments, state before, builder calls, outcome
    registry, \* one *registry struct: cfg, mu, m, count
    gor,      \* per goroutine: the frame of its call on that registry
    typeNameCache, \* the memo of the reflect strategy, by cacheKey
    probe,    \* the call on the normalizer, a strategy or a resolver, and its result
    rfx       \* the package run with builder.New(): state struct, registries, frames

vars ==
    <<st, snaps, regs, ress, buildMu, fr, rd, held, last, registry, gor,
      typeNameCache, probe, rfx>>

\* The variables of the global state, and those of the registry instance.
globalVars == <<st, snaps, regs, ress, buildMu, fr, rd, held, last>>

registryVars == <<registry, gor>>

strategyVars == <<typeNameCache, probe>>

----------------------------------------------------------------------------
(* Bounds of the model.                                                    *)

MaxRegs == 5    \* registries alive at the same time
MaxRess == 4    \* resolvers alive at the same time
MaxPtrs == 3    \* state structs alive at the same time
MaxDepth == 3   \* levels of unnamed wrappers around a type argument

----------------------------------------------------------------------------
(* Values.                                                                 *)

NULL == 0

RegIds == 1..MaxRegs
ResIds == 1..MaxRess
PtrIds == 1..MaxPtrs

WriterSeq == <<"w1", "w2">>
ReaderSeq == <<"r1">>
Range(q) == {q[i] : i \in 1..Len(q)}
Writers == Range(WriterSeq)
Readers == Range(ReaderSeq)
NoOne == "none"

DefaultIncludeBuiltins == TRUE
DefaultMaxUnwrap == 8
DefaultMapPreferElem == TRUE

DefaultConfig ==
    [IncludeBuiltins |-> DefaultIncludeBuiltins,
     MaxUnwrap       |-> DefaultMaxUnwrap,
     MapPreferElem   |-> DefaultMapPreferElem]

\* A second configuration, the one the tests reconfigure to.
TestConfig ==
    [IncludeBuiltins |-> TRUE, MaxUnwrap |-> 4, MapPreferElem |-> FALSE]

Cfgs == {DefaultConfig, TestConfig}

NoExt == "nil"
Exts == {NoExt, "ext42"}

\* "default" is builder.New(); "mock" is a caller-supplied apis.Builder, which
\* may return nil from either method.
Builders == {"default", "mock"}
NoBuilder == "nil"

ErrNilRegistry == "rfx: builder returned nil registry"
ErrNilResolver == "rfx: builder returned nil resolver"

\* The zero value of the state struct; also the content of a free slot.
ZeroState ==
    [cfg |-> DefaultConfig, ext |-> NoExt, reg |-> NULL, res |-> NULL,
     bld |-> NoBuilder, preg |-> FALSE, pres |-> FALSE]

\* Free slots of the registry and resolver heaps; also what a builder that
\* returns nil "returns".
NoRegistry == [by |-> "free"]
NewRegistry == [by |-> "live"]
NoResolver == [by |-> "free", reg |-> NULL, cfg |-> DefaultConfig, pinned |-> FALSE]

Min(S) == CHOOSE x \in S : \A y \in S : x <= y

FreeRegs == {i \in RegIds : regs[i].by = "free"}
FreeRess == {i \in ResIds : ress[i].by = "free"}
FreePtrs == {p \in PtrIds : snaps[p].bld = NoBuilder}

----------------------------------------------------------------------------
(* The builder.                                                            *)

\* BuildRegistry(cfg, preg, ext): the registries the builder may return.
BuildRegistry(b, cfg, preg, ext) ==
    IF b = "default"
    THEN {NewRegistry}
    ELSE {NewRegistry, NoRegistry}

\* BuildResolver(cfg, reg, pres, ext): the resolvers the builder may return.
\* The default chain holds `reg` in its registry strategy.
BuildResolver(b, cfg, reg, pres, ext) ==
    IF b = "default"
    THEN {[by |-> b, reg |-> reg, cfg |-> cfg, pinned |-> FALSE]}
    ELSE {[by |-> b, reg |-> reg, cfg |-> cfg, pinned |-> FALSE], NoResolver}

----------------------------------------------------------------------------
(* The write handlers.  Each maps the loaded state `o` and the arguments   *)
(* to what the handler does: the fields of the state it stores, whether it *)
(* calls BuildRegistry / BuildResolver (and the value nreg / nres has if   *)
(* it does not), and which nil checks it makes before storing.             *)

Plan(cfg, ext, bld, buildReg, reg, buildRes, res, preg, pres, chkReg, chkRes) ==
    [cfg |-> cfg, ext |-> ext, bld |-> bld,
     buildReg |-> buildReg, reg |-> reg,
     buildRes |-> buildRes, res |-> res,
     preg |-> preg, pres |-> pres,
     chkReg |-> chkReg, chkRes |-> chkRes]

\* SetAll as it would be if a pin set before survived the call.
SetAllKeepsPins(o, cfg, ext, reg, res, bld) ==
    Plan(IF cfg # <<>> THEN cfg[1] ELSE o.cfg,
         ext,
         IF bld # NoBuilder THEN bld ELSE o.bld,
         reg = NULL, reg,
         res = NULL, res,
         o.preg \/ reg # NULL, o.pres \/ res # NULL,
         TRUE, TRUE)

\* SetAll as it would be if a nil ext kept the old ext.
SetAllKeepsExt(o, cfg, ext, reg, res, bld) ==
    Plan(IF cfg # <<>> THEN cfg[1] ELSE o.cfg,
         IF ext # NoExt THEN ext ELSE o.ext,
         IF bld # NoBuilder THEN bld ELSE o.bld,
         reg = NULL, reg,
         res = NULL, res,
         reg # NULL, res # NULL,
         TRUE, TRUE)

\* SetAll as it would be if it rebuilt with the old builder.
SetAllOldBuilder(o, cfg, ext, reg, res, bld) ==
    Plan(IF cfg # <<>> THEN cfg[1] ELSE o.cfg,
         ext,
         o.bld,
         reg = NULL, reg,
         res = NULL, res,
         reg # NULL, res # NULL,
         TRUE, TRUE)

\* cfg is <<>> for a nil *apis.Config and <<c>> for a pointer to c.
SetAll(o, cfg, ext, reg, res, bld) ==
    Plan(IF cfg # <<>> THEN cfg[1] ELSE o.cfg,
         ext,
         IF bld # NoBuilder THEN bld ELSE o.bld,
         reg = NULL, reg,
         res = NULL, res,
         reg # NULL, res # NULL,
         TRUE, TRUE)

\* SetConfig as it would be if it cleared both pins.
SetConfigDropsPins(o, cfg) ==
    Plan(cfg, o.ext, o.bld,
         ~o.preg, o.reg,
         ~o.pres, o.res,
         FALSE, FALSE,
         TRUE, TRUE)

SetConfig(o, cfg) ==
    Plan(cfg, o.ext, o.bld,
         ~o.preg, o.reg,
         ~o.pres, o.res,
         o.preg, o.pres,
         TRUE, TRUE)

\* SetRegistry as it would be if it kept the old resolver.
SetRegistryKeepsResolver(o, reg) ==
    Plan(o.cfg, o.ext, o.bld,
         FALSE, reg,
         FALSE, o.res,
         TRUE, o.pres,
         FALSE, TRUE)

\* SetRegistry as it would be if it left the registry pin as it was.
SetRegistryNoPin(o, reg) ==
    Plan(o.cfg, o.ext, o.bld,
         FALSE, reg,
         ~o.pres, o.res,
         o.preg, o.pres,
         FALSE, TRUE)

SetRegistry(o, reg) ==
    Plan(o.cfg, o.ext, o.bld,
         FALSE, reg,
         ~o.pres, o.res,
         TRUE, o.pres,
         FALSE, TRUE)

\* SetResolver as it would be if it rebuilt an unpinned registry.
SetResolverRebuildsRegistry(o, res) ==
    Plan(o.cfg, o.ext, o.bld,
         ~o.preg, o.reg,
         FALSE, res,
         o.preg, TRUE,
         TRUE, FALSE)

SetResolver(o, res) ==
    Plan(o.cfg, o.ext, o.bld,
         FALSE, o.reg,
         FALSE, res,
         o.preg, TRUE,
         FALSE, FALSE)

\* SetBuilder as it would be if it rebuilt with, and kept, the old builder.
SetBuilderKeepsOld(o, b) ==
    Plan(o.cfg, o.ext, o.bld,
         ~o.preg, o.reg,
         ~o.pres, o.res,
         o.preg, o.pres,
         TRUE, TRUE)

SetBuilder(o, b) ==
    Plan(o.cfg, o.ext, b,
         ~o.preg, o.reg,
         ~o.pres, o.res,
         o.preg, o.pres,
         TRUE, TRUE)

\* SetExt as it would be if the builder got, and the state kept, the old ext.
SetExtKeepsOld(o, ext) ==
    Plan(o.cfg, o.ext, o.bld,
         ~o.preg, o.reg,
         ~o.pres, o.res,
         o.preg, o.pres,
         TRUE, TRUE)

\* SetExt as it would be if it rebuilt both layers whatever the pins.
SetExtIgnoresPins(o, ext) ==
    Plan(o.cfg, ext, o.bld,
         TRUE, o.reg,
         TRUE, o.res,
         o.preg, o.pres,
         TRUE, TRUE)

SetExt(o, ext) ==
    Plan(o.cfg, ext, o.bld,
         ~o.preg, o.reg,
         ~o.pres, o.res,
         o.preg, o.pres,
         TRUE, TRUE)

PinRegistry(o) ==
    Plan(o.cfg, o.ext, o.bld, FALSE, o.reg, FALSE, o.res, TRUE, o.pres, FALSE, FALSE)

\* UnpinRegistry as it would be if it rebuilt the registry at once.
UnpinRegistryRebuilds(o) ==
    Plan(o.cfg, o.ext, o.bld, TRUE, o.reg, FALSE, o.res, FALSE, o.pres, TRUE, FALSE)

UnpinRegistry(o) ==
    Plan(o.cfg, o.ext, o.bld, FALSE, o.reg, FALSE, o.res, FALSE, o.pres, FALSE, FALSE)

PinResolver(o) ==
    Plan(o.cfg, o.ext, o.bld, FALSE, o.reg, FALSE, o.res, o.preg, TRUE, FALSE, FALSE)

UnpinResolver(o) ==
    Plan(o.cfg, o.ext, o.bld, FALSE, o.reg, FALSE, o.res, o.preg, FALSE, FALSE, FALSE)

\* A write call: the handler's name and its arguments (unused ones are nil).
Call(name, cfg, ext, reg, res, bld) ==
    [name |-> name, cfg |-> cfg, ext |-> ext, reg |-> reg, res |-> res, bld |-> bld]

NoCall == Call("none", <<>>, NoExt, NULL, NULL, NoBuilder)

\* SetRegistry(nil), SetResolver(nil) and SetBuilder(nil) return before locking.
\* The nil checks as they would be if only SetRegistry had one.
ReturnsEarlyRegistryOnly(c) == c.name = "SetRegistry" /\ c.reg = NULL

ReturnsEarly(c) ==
    \/ c.name = "SetRegistry" /\ c.reg = NULL
    \/ c.name = "SetResolver" /\ c.res = NULL
    \/ c.name = "SetBuilder"  /\ c.bld = NoBuilder

PlanOf(c, o) ==
    CASE c.name = "SetAll"        -> SetAll(o, c.cfg, c.ext, c.reg, c.res, c.bld)
      [] c.name = "SetConfig"     -> SetConfig(o, c.cfg[1])
      [] c.name = "SetRegistry"   -> SetRegistry(o, c.reg)
      [] c.name = "SetResolver"   -> SetResolver(o, c.res)
      [] c.name = "SetBuilder"    -> SetBuilder(o, c.bld)
      [] c.name = "SetExt"        -> SetExt(o, c.ext)
      [] c.name = "PinRegistry"   -> PinRegistry(o)
      [] c.name = "UnpinRegistry" -> UnpinRegistry(o)
      [] c.name = "PinResolver"   -> PinResolver(o)
      [] c.name = "UnpinResolver" -> UnpinResolver(o)

\* The registries and resolvers a caller can pass: nil, one it made itself (a
\* fresh address) or a live one it got from Registry() / Resolver() earlier.
NewRegs == IF FreeRegs = {} THEN {} ELSE {Min(FreeRegs)}
NewRess == IF FreeRess = {} THEN {} ELSE {Min(FreeRess)}
RegArgs == {NULL} \cup (RegIds \ FreeRegs) \cup NewRegs
ResArgs == {NULL} \cup (ResIds \ FreeRess) \cup NewRess

Calls ==
    {Call("SetConfig", <<c>>, NoExt, NULL, NULL, NoBuilder) : c \in Cfgs}
    \cup {Call("SetExt", <<>>, x, NULL, NULL, NoBuilder) : x \in Exts}
    \cup {Call("SetBuilder", <<>>, NoExt, NULL, NULL, b) : b \in Builders \cup {NoBuilder}}
    \cup {Call("SetRegistry", <<>>, NoExt, r, NULL, NoBuilder) : r \in RegArgs}
    \cup {Call("SetResolver", <<>>, NoExt, NULL, s, NoBuilder) : s \in ResArgs}
    \cup {Call(n, <<>>, NoExt, NULL, NULL, NoBuilder) :
            n \in {"PinRegistry", "UnpinRegistry", "PinResolver", "UnpinResolver"}}
    \cup {Call("SetAll", c, x, r, s, b) :
            c \in {<<>>} \cup {<<k>> : k \in Cfgs}, x \in Exts,
            r \in {NULL} \cup NewRegs, s \in {NULL} \cup NewRess,
            b \in Builders \cup {NoBuilder}}

----------------------------------------------------------------------------
(* Frames and records.                                                     *)

IdleWriter == [pc |-> "idle", call |-> NoCall, old |-> NULL, nreg |-> NULL, nres |-> NULL]

IdleReader == [pc |-> "idle", fn |-> "none", s |-> NULL,
               res |-> NULL, reg |-> NULL, cfg |-> DefaultConfig]

NoHeld == [reg |-> NULL, res |-> NULL]

NoRecord == [call |-> NoCall, pre |-> ZeroState, prePtr |-> NULL,
             calls |-> <<>>, outcome |-> "none"]

\* One builder call, as the builder sees it.
BuilderCall(fn, b, cfg, reg, prev, ext, ret) ==
    [fn |-> fn, by |-> b, cfg |-> cfg, reg |-> reg, prev |-> prev, ext |-> ext, ret |-> ret]

----------------------------------------------------------------------------
(* Garbage collection.  The roots are the published pointer, the frames of *)
(* the calls in progress and the caller-held instances.  Live objects are  *)
(* renumbered in the order the roots reach them; the rest becomes free.    *)

\* The positions of q that hold a non-NULL value for the first time, and the
\* values at those positions, in order.
FirstAt(q) == {i \in 1..Len(q) : q[i] # NULL /\ \A j \in 1..(i - 1) : q[j] # q[i]}

Pack(q, F) ==
    [k \in 1..Cardinality(F) |-> q[CHOOSE i \in F : Cardinality({j \in F : j <= i}) = k]]

Dedup(q) == CHOOSE d \in UNION {{Pack(v, F) : F \in {FirstAt(v)}} : v \in {q}} : TRUE

Index(d, x) == IF x = NULL THEN NULL ELSE CHOOSE i \in 1..Len(d) : d[i] = x

\* The live states, resolvers and registries, each list in the order the
\* roots reach them.
PtrOrder(T) ==
    Dedup(<<T.st>>
          \o [i \in 1..Len(WriterSeq) |-> T.fr[WriterSeq[i]].old]
          \o [i \in 1..Len(ReaderSeq) |-> T.rd[ReaderSeq[i]].s])

ResOrder(T, pd) ==
    Dedup([i \in 1..Len(pd) |-> T.snaps[pd[i]].res]
          \o [i \in 1..Len(WriterSeq) |-> T.fr[WriterSeq[i]].nres]
          \o [i \in 1..Len(WriterSeq) |-> T.fr[WriterSeq[i]].call.res]
          \o [i \in 1..Len(ReaderSeq) |-> T.rd[ReaderSeq[i]].res]
          \o <<T.held.res>>)

RegOrder(T, pd, sd) ==
    Dedup([i \in 1..Len(pd) |-> T.snaps[pd[i]].reg]
          \o [i \in 1..Len(sd) |-> T.ress[sd[i]].reg]
          \o [i \in 1..Len(WriterSeq) |-> T.fr[WriterSeq[i]].nreg]
          \o [i \in 1..Len(WriterSeq) |-> T.fr[WriterSeq[i]].call.reg]
          \o [i \in 1..Len(ReaderSeq) |-> T.rd[ReaderSeq[i]].reg]
          \o <<T.held.reg>>)

Renumber(T, pd, sd, gd) ==
    [st    |-> Index(pd, T.st),
     snaps |-> [p \in PtrIds |->
                  IF p <= Len(pd)
                  THEN [T.snaps[pd[p]] EXCEPT !.reg = Index(gd, @), !.res = Index(sd, @)]
                  ELSE ZeroState],
     regs  |-> [i \in RegIds |-> IF i <= Len(gd) THEN T.regs[gd[i]] ELSE NoRegistry],
     ress  |-> [i \in ResIds |->
                  IF i <= Len(sd)
                  THEN [T.ress[sd[i]] EXCEPT !.reg = Index(gd, @)]
                  ELSE NoResolver],
     fr    |-> [w \in Writers |->
                  [T.fr[w] EXCEPT !.old = Index(pd, @), !.nreg = Index(gd, @),
                                  !.nres = Index(sd, @), !.call.reg = Index(gd, @),
                                  !.call.res = Index(sd, @)]],
     rd    |-> [r \in Readers |->
                  [T.rd[r] EXCEPT !.s = Index(pd, @), !.reg = Index(gd, @),
                                  !.res = Index(sd, @)]],
     held  |-> [reg |-> Index(gd, T.held.reg), res |-> Index(sd, T.held.res)]]

Compact(T) ==
    CHOOSE C \in UNION {UNION {{Renumber(T, pd, sd, gd) : gd \in {RegOrder(T, pd, sd)}} :
                                sd \in {ResOrder(T, pd)}} :
                        pd \in {PtrOrder(T)}} : TRUE

\* The next state is T, collected (unless the step is the observed one, whose
\* record keeps the addresses of the state before).
Install(T, collect) ==
    \E U \in {T} :
        \E C \in {IF collect THEN Compact(U) ELSE U} :
            /\ st' = C.st
            /\ snaps' = C.snaps
            /\ regs' = C.regs
            /\ ress' = C.ress
            /\ fr' = C.fr
            /\ rd' = C.rd
            /\ held' = C.held
            /\ UNCHANGED <<registryVars, strategyVars, rfx>>

Now == [st |-> st, snaps |-> snaps, regs |-> regs, ress |-> ress,
        fr |-> fr, rd |-> rd, held |-> held]

----------------------------------------------------------------------------
(* Type descriptors (reflect.Type) and Normalize.                          *)
(*                                                                         *)
(* A descriptor carries what Normalize reads: Kind(), Name(), Elem() and   *)
(* Key().  Name() is "" for an unnamed type; a container type can be named *)
(* (type IDs []T).                                                         *)

NilType == [kind |-> "nil", name |-> ""]

Named(n) == [kind |-> "struct", name |-> n]

Anon == [kind |-> "struct", name |-> ""]

Ptr(e) == [kind |-> "ptr", name |-> "", elem |-> e]

Slice(e) == [kind |-> "slice", name |-> "", elem |-> e]

Array(e) == [kind |-> "array", name |-> "", elem |-> e]

Chan(e) == [kind |-> "chan", name |-> "", elem |-> e]

\* A declared type whose underlying type is u (type IDs []T): Kind() is
\* the kind of u, Name() is the declared name.
NamedAs(n, u) == [u EXCEPT !.name = n]

MapOf(k, e) == [kind |-> "map", name |-> "", key |-> k, elem |-> e]

ErrReflectNilType == "reflect: nil reflect.Type provided"
ErrReflectTypeNotNamed == "reflect: type has no registered name"
NoError == "nil"

Found(t) == [t |-> t, err |-> NoError]

Failed(e) == [t |-> NilType, err |-> e]

\* The loop going on with the key of a map that has no named side.
RECURSIVE UnwrapKeyNext(_, _, _, _)
UnwrapKeyNext(t, i, maxUnwrap, preferElem) ==
    IF i >= maxUnwrap
    THEN IF t.name # "" THEN Found(t) ELSE Failed(ErrReflectTypeNotNamed)
    ELSE IF t.kind \in {"ptr", "slice", "array", "chan"}
    THEN UnwrapKeyNext(t.elem, i + 1, maxUnwrap, preferElem)
    ELSE IF t.kind = "map"
    THEN IF t.elem.name # "" /\ (preferElem \/ t.key.name = "") THEN Found(t.elem)
         ELSE IF t.key.name # "" THEN Found(t.key)
         ELSE UnwrapKeyNext(t.key, i + 1, maxUnwrap, preferElem)
    ELSE IF t.name # "" THEN Found(t) ELSE Failed(ErrReflectTypeNotNamed)

\* The loop without the fall-back to the other side of a map.
RECURSIVE UnwrapPreferredOnly(_, _, _, _)
UnwrapPreferredOnly(t, i, maxUnwrap, preferElem) ==
    IF i >= maxUnwrap
    THEN IF t.name # "" THEN Found(t) ELSE Failed(ErrReflectTypeNotNamed)
    ELSE IF t.kind \in {"ptr", "slice", "array", "chan"}
    THEN UnwrapPreferredOnly(t.elem, i + 1, maxUnwrap, preferElem)
    ELSE IF t.kind = "map"
    THEN IF preferElem
         THEN IF t.elem.name # "" THEN Found(t.elem)
              ELSE UnwrapPreferredOnly(t.elem, i + 1, maxUnwrap, preferElem)
         ELSE IF t.key.name # "" THEN Found(t.key)
              ELSE UnwrapPreferredOnly(t.elem, i + 1, maxUnwrap, preferElem)
    ELSE IF t.name # "" THEN Found(t) ELSE Failed(ErrReflectTypeNotNamed)

\* The loop of Normalize from iteration i on, t being the current type.
RECURSIVE Unwrap(_, _, _, _)
Unwrap(t, i, maxUnwrap, preferElem) ==
    IF i >= maxUnwrap
    THEN IF t.name # "" THEN Found(t) ELSE Failed(ErrReflectTypeNotNamed)
    ELSE IF t.kind \in {"ptr", "slice", "array", "chan"}
    THEN Unwrap(t.elem, i + 1, maxUnwrap, preferElem)
    ELSE IF t.kind = "map"
    THEN IF preferElem
         THEN IF t.elem.name # "" THEN Found(t.elem)
              ELSE IF t.key.name # "" THEN Found(t.key)
              ELSE Unwrap(t.elem, i + 1, maxUnwrap, preferElem)
         ELSE IF t.key.name # "" THEN Found(t.key)
              ELSE IF t.elem.name # "" THEN Found(t.elem)
              ELSE Unwrap(t.elem, i + 1, maxUnwrap, preferElem)
    ELSE IF t.name # "" THEN Found(t) ELSE Failed(ErrReflectTypeNotNamed)

\* Normalize taking the budget as it is given.
NormalizeNoClamp(t, cfg) ==
    IF t = NilType THEN Failed(ErrReflectNilType)
    ELSE Unwrap(t, 0, cfg.MaxUnwrap, cfg.MapPreferElem)

\* Normalize with one iteration less than the budget.
NormalizeOneShort(t, cfg) ==
    IF t = NilType THEN Failed(ErrReflectNilType)
    ELSE Unwrap(t, 0,
                IF cfg.MaxUnwrap <= 0 THEN DefaultMaxUnwrap ELSE cfg.MaxUnwrap - 1,
                cfg.MapPreferElem)

\* Normalize that reads the element side first whatever MapPreferElem says.
NormalizeElemFirst(t, cfg) ==
    IF t = NilType THEN Failed(ErrReflectNilType)
    ELSE Unwrap(t, 0,
                IF cfg.MaxUnwrap <= 0 THEN DefaultMaxUnwrap ELSE cfg.MaxUnwrap,
                TRUE)

Normalize(t, cfg) ==
    IF t = NilType THEN Failed(ErrReflectNilType)
    ELSE Unwrap(t, 0,
                IF cfg.MaxUnwrap <= 0 THEN DefaultMaxUnwrap ELSE cfg.MaxUnwrap,
                cfg.MapPreferElem)

----------------------------------------------------------------------------
(* The registry: registry.New, and the frames of the calls on it.          *)

ErrNilType == "rfx(registry): nil reflect.Type provided"
ErrEmptyName == "rfx(registry): empty name provided"
ErrConflictingRegistration == "rfx(registry): conflicting type registration"

GoroutineSeq == <<"g1", "g2", "g3">>
Goroutines == Range(GoroutineSeq)

\* sync.Map as a function from the stored keys to their values.
EmptyMap == [k \in {} |-> ""]

MapStore(m, k, v) == [x \in DOMAIN m \cup {k} |-> IF x = k THEN v ELSE m[x]]

\* m.Load(k): the pair (value, ok).
MapLoad(m, k) ==
    IF k \in DOMAIN m THEN [v |-> m[k], ok |-> TRUE] ELSE [v |-> "", ok |-> FALSE]

\* The entries Range yields when it visits all of m at one instant.
EntriesOf(m) == {[Type |-> k, Name |-> m[k]] : k \in DOMAIN m}

RegistryNew(cfg) ==
    [cfg |-> IF cfg.MaxUnwrap <= 0
             THEN [cfg EXCEPT !.MaxUnwrap = DefaultMaxUnwrap] ELSE cfg,
     mu |-> NoOne, m |-> EmptyMap, count |-> 0, fatal |-> FALSE]

NoPre == [m |-> EmptyMap, count |-> -1]

NoProbe == [fn |-> "none"]

IdleGoroutine ==
    [pc |-> "idle", op |-> "none", t |-> NilType, name |-> "", b |-> NilType,
     err |-> NoError, ret |-> "", ok |-> FALSE, n |-> 0,
     visited |-> {}, entries |-> {}, during |-> {}, pre |-> NoPre]

----------------------------------------------------------------------------
(* The strategies, as values, and the chain builder.BuildResolver makes.   *)

NilStrategy == [kind |-> "nil", reg |-> NULL]
NamerStrategy == [kind |-> "namer", reg |-> NULL]
RegistryStrategy(reg) == [kind |-> "registry", reg |-> reg]
ReflectStrategy == [kind |-> "reflect", reg |-> NULL]

\* The chain with the registry ahead of the namer.
DefaultChainRegistryFirst(reg) ==
    <<RegistryStrategy(reg), NamerStrategy, ReflectStrategy>>

\* The default builder's chain over the registry at reg.
DefaultChain(reg) == <<NamerStrategy, RegistryStrategy(reg), ReflectStrategy>>

----------------------------------------------------------------------------
(* init(): the default config, the default builder, both layers built.     *)

InitGlobal ==
    /\ st = 1
    /\ snaps = [p \in PtrIds |->
                  IF p = 1
                  THEN [cfg |-> DefaultConfig, ext |-> NoExt, reg |-> 1, res |-> 1,
                        bld |-> "default", preg |-> FALSE, pres |-> FALSE]
                  ELSE ZeroState]
    /\ regs = [i \in RegIds |-> IF i = 1 THEN NewRegistry ELSE NoRegistry]
    /\ ress = [i \in ResIds |->
                  IF i = 1
                  THEN [by |-> "default", reg |-> 1, cfg |-> DefaultConfig, pinned |-> FALSE]
                  ELSE NoResolver]
    /\ buildMu = NoOne
    /\ fr = [w \in Writers |-> IdleWriter]
    /\ rd = [r \in Readers |-> IdleReader]
    /\ held = NoHeld
    /\ last = NoRecord

\* No call made yet, nothing memoized.
InitStrategy ==
    /\ typeNameCache = EmptyMap
    /\ probe = NoProbe

\* The frames of the calls on the package run with builder.New().
NoBuild == [prev |-> NULL]

IdleCall ==
    [pc |-> "idle", call |-> NoCall, old |-> ZeroState, nreg |-> NULL, build |-> NoBuild]

IdleRegister ==
    [pc |-> "idle", reg |-> NULL, t |-> NilType, name |-> "", err |-> NoError]

\* init() with registries that hold their entries: the registry at address 1
\* is empty, the resolver is the default chain over it.
InitDefault ==
    rfx = [st |-> [cfg |-> DefaultConfig, ext |-> NoExt, reg |-> 1,
                   res |-> DefaultChain(1), bld |-> "default",
                   preg |-> FALSE, pres |-> FALSE],
           regs |-> <<RegistryNew(DefaultConfig)>>,
           mu |-> NoOne,
           w |-> IdleCall,
           r |-> IdleRegister,
           ok |-> {}]

Init ==
    /\ InitGlobal
    /\ registry = RegistryNew(DefaultConfig)
    /\ gor = [g \in Goroutines |-> IdleGoroutine]
    /\ InitStrategy
    /\ InitDefault

----------------------------------------------------------------------------
(* Writers.                                                                *)

\* A caller-made registry / resolver passed as an argument.
WithCallerReg(r) ==
    IF r # NULL /\ regs[r].by = "free" THEN [regs EXCEPT ![r] = NewRegistry] ELSE regs

WithCallerRes(s) ==
    IF s # NULL /\ ress[s].by = "free"
    THEN [ress EXCEPT ![s] = [by |-> "caller", reg |-> NULL, cfg |-> DefaultConfig,
                              pinned |-> FALSE]]
    ELSE ress

\* The nil checks as they would be if no handler made any.
NilCheckNone(pl, reg, res) == "ok"

\* The nil checks as they would be if only the registry was checked.
NilCheckRegistryOnly(pl, reg, res) ==
    IF pl.chkReg /\ reg = NULL THEN ErrNilRegistry ELSE "ok"

\* The nil checks before st.Store: the error the handler panics with, or "ok".
NilCheck(pl, reg, res) ==
    IF pl.chkReg /\ reg = NULL THEN ErrNilRegistry
    ELSE IF pl.chkRes /\ res = NULL THEN ErrNilResolver
    ELSE "ok"

\* The state struct the handler stores.
NewState(pl, reg, res) ==
    [cfg |-> pl.cfg, ext |-> pl.ext, reg |-> reg, res |-> res,
     bld |-> pl.bld, preg |-> pl.preg, pres |-> pl.pres]

\* A resolver that is the resolver of a published state with pres = true has
\* been pinned.
MarkPinned(rs, new) ==
    IF new.pres /\ new.res # NULL THEN [rs EXCEPT ![new.res].pinned = TRUE] ELSE rs

\* The instance a caller pinned with SetRegistry(R) / SetResolver(S) and still
\* expects to find: forgotten when the call that ends the pin is made.
Held(h, c, stored) ==
    [reg |-> IF c.name = "SetRegistry" THEN (IF stored THEN c.reg ELSE NULL)
             ELSE IF c.name \in {"UnpinRegistry", "SetAll"} THEN NULL
             ELSE h.reg,
     res |-> IF c.name = "SetResolver" THEN (IF stored THEN c.res ELSE NULL)
             ELSE IF c.name \in {"UnpinResolver", "SetAll"} THEN NULL
             ELSE h.res]

\* A nil argument: the handler returns without locking or storing.
NilReturn(c, rec) ==
    /\ last = NoRecord
    /\ \A w \in Writers : fr[w].pc = "idle"
    /\ ReturnsEarly(c)
    /\ last' = IF rec
               THEN [call |-> c, pre |-> snaps[st], prePtr |-> st,
                     calls |-> <<>>, outcome |-> "noop"]
               ELSE NoRecord
    /\ UNCHANGED <<st, snaps, regs, ress, buildMu, fr, rd, held>>
    /\ UNCHANGED <<registryVars, strategyVars, rfx>>

\* A whole write handler, run without interruption: Lock, the builder calls,
\* the nil checks, then st.Store or the panic, and the deferred Unlock.
Write(c, rec) ==
    /\ last = NoRecord
    /\ buildMu = NoOne
    /\ ~ReturnsEarly(c)
    /\ LET o == snaps[st]
           pl == PlanOf(c, o)
       IN /\ FreePtrs # {}
          /\ pl.buildReg => FreeRegs # {}
          /\ pl.buildRes => FreeRess # {}
          /\ \E rnew \in (IF pl.buildReg
                          THEN BuildRegistry(pl.bld, pl.cfg, o.reg, pl.ext)
                          ELSE {NoRegistry}) :
             LET rid == IF ~pl.buildReg THEN pl.reg
                        ELSE IF rnew = NoRegistry THEN NULL ELSE Min(FreeRegs)
                 rcall == IF pl.buildReg
                          THEN <<BuilderCall("BuildRegistry", pl.bld, pl.cfg, NULL,
                                             o.reg, pl.ext, rid)>>
                          ELSE <<>>
                 regs1 == IF pl.buildReg /\ rid # NULL
                          THEN [regs EXCEPT ![rid] = rnew] ELSE WithCallerReg(c.reg)
             IN \E snew \in (IF pl.buildRes
                             THEN BuildResolver(pl.bld, pl.cfg, rid, o.res, pl.ext)
                             ELSE {NoResolver}) :
                LET sid == IF ~pl.buildRes THEN pl.res
                           ELSE IF snew = NoResolver THEN NULL ELSE Min(FreeRess)
                    scall == IF pl.buildRes
                             THEN <<BuilderCall("BuildResolver", pl.bld, pl.cfg, rid,
                                                o.res, pl.ext, sid)>>
                             ELSE <<>>
                    ress1 == IF pl.buildRes /\ sid # NULL
                             THEN [ress EXCEPT ![sid] = snew] ELSE WithCallerRes(c.res)
                    chk == NilCheck(pl, rid, sid)
                    p == Min(FreePtrs)
                    new == NewState(pl, rid, sid)
                IN /\ last' = IF rec
                              THEN [call |-> c, pre |-> o, prePtr |-> st,
                                    calls |-> rcall \o scall,
                                    outcome |-> IF chk = "ok" THEN "stored" ELSE chk]
                              ELSE NoRecord
                   /\ UNCHANGED buildMu
                   /\ Install([Now EXCEPT
                                 !.st = IF chk = "ok" THEN p ELSE st,
                                 !.snaps = IF chk = "ok" THEN [snaps EXCEPT ![p] = new]
                                           ELSE snaps,
                                 !.regs = regs1,
                                 !.ress = IF chk = "ok" THEN MarkPinned(ress1, new)
                                          ELSE ress1,
                                 !.held = Held(held, c, chk = "ok")],
                              ~rec)

----------------------------------------------------------------------------
(* The write handlers step by step, for the interleavings with other       *)
(* writers and with readers.                                               *)

\* The guard as it would be if Lock never waited.
CanLockAlways(w) == TRUE

\* The guard of buildMu.Lock().
CanLock(w) == buildMu = NoOne

\* buildMu.Lock(); old := st.Load(); nreg and nres get their first values.
Lock(w, c) ==
    /\ last = NoRecord
    /\ fr[w].pc = "idle"
    /\ ~ReturnsEarly(c)
    /\ CanLock(w)
    /\ LET pl == PlanOf(c, snaps[st]) IN
        /\ Cardinality(FreePtrs) >= Cardinality({v \in Writers : fr[v].pc # "idle"}) + 1
        /\ pl.buildReg => FreeRegs # {}
        /\ pl.buildRes => FreeRess # {}
        /\ buildMu' = w
        /\ UNCHANGED last
        /\ Install([Now EXCEPT
                      !.fr[w] = [pc |-> IF pl.buildReg THEN "reg"
                                        ELSE IF pl.buildRes THEN "res" ELSE "store",
                                 call |-> c, old |-> st, nreg |-> pl.reg, nres |-> pl.res],
                      !.regs = WithCallerReg(c.reg),
                      !.ress = WithCallerRes(c.res)],
                   TRUE)

\* nreg = b.BuildRegistry(cfg, old.reg, ext)
CallBuildRegistry(w) ==
    /\ fr[w].pc = "reg"
    /\ LET o == snaps[fr[w].old]
           pl == PlanOf(fr[w].call, o)
       IN \E new \in BuildRegistry(pl.bld, pl.cfg, o.reg, pl.ext) :
            LET id == IF new = NoRegistry THEN NULL ELSE Min(FreeRegs) IN
            /\ new # NoRegistry => FreeRegs # {}
            /\ UNCHANGED <<buildMu, last>>
            /\ Install([Now EXCEPT
                          !.fr[w].nreg = id,
                          !.fr[w].pc = IF pl.buildRes THEN "res" ELSE "store",
                          !.regs = IF id = NULL THEN regs ELSE [regs EXCEPT ![id] = new]],
                       TRUE)

\* nres = b.BuildResolver(cfg, nreg, old.res, ext)
CallBuildResolver(w) ==
    /\ fr[w].pc = "res"
    /\ LET o == snaps[fr[w].old]
           pl == PlanOf(fr[w].call, o)
       IN \E new \in BuildResolver(pl.bld, pl.cfg, fr[w].nreg, o.res, pl.ext) :
            LET id == IF new = NoResolver THEN NULL ELSE Min(FreeRess) IN
            /\ new # NoResolver => FreeRess # {}
            /\ UNCHANGED <<buildMu, last>>
            /\ Install([Now EXCEPT
                          !.fr[w].nres = id,
                          !.fr[w].pc = "store",
                          !.ress = IF id = NULL THEN ress ELSE [ress EXCEPT ![id] = new]],
                       TRUE)

\* st.Store(&state{...}); the deferred buildMu.Unlock().
Publish(w) ==
    /\ fr[w].pc = "store"
    /\ LET pl == PlanOf(fr[w].call, snaps[fr[w].old])
           p == Min(FreePtrs)
           new == NewState(pl, fr[w].nreg, fr[w].nres)
       IN /\ NilCheck(pl, fr[w].nreg, fr[w].nres) = "ok"
          /\ FreePtrs # {}
          /\ buildMu' = NoOne
          /\ UNCHANGED last
          /\ Install([Now EXCEPT
                        !.st = p,
                        !.snaps = [snaps EXCEPT ![p] = new],
                        !.ress = MarkPinned(ress, new),
                        !.held = Held(held, fr[w].call, TRUE),
                        !.fr[w] = IdleWriter],
                     TRUE)

\* The abort as it would be without the deferred buildMu.Unlock().
PanicKeepsLock(w) ==
    /\ fr[w].pc = "store"
    /\ LET pl == PlanOf(fr[w].call, snaps[fr[w].old])
       IN /\ NilCheck(pl, fr[w].nreg, fr[w].nres) # "ok"
          /\ UNCHANGED buildMu
          /\ UNCHANGED last
          /\ Install([Now EXCEPT
                        !.held = Held(held, fr[w].call, FALSE),
                        !.fr[w] = IdleWriter],
                     TRUE)

\* panic(ErrNilRegistry) / panic(ErrNilResolver); the deferred buildMu.Unlock().
Panic(w) ==
    /\ fr[w].pc = "store"
    /\ LET pl == PlanOf(fr[w].call, snaps[fr[w].old])
       IN /\ NilCheck(pl, fr[w].nreg, fr[w].nres) # "ok"
          /\ buildMu' = NoOne
          /\ UNCHANGED last
          /\ Install([Now EXCEPT
                        !.held = Held(held, fr[w].call, FALSE),
                        !.fr[w] = IdleWriter],
                     TRUE)

----------------------------------------------------------------------------
(* Readers: Entity, EntityType, Config, Registry, Resolver.                *)

ReaderFns == {"Entity", "EntityType", "Config", "Registry", "Resolver"}

\* s := st.Load()
Load(r, fn) ==
    /\ rd[r].pc = "idle"
    /\ UNCHANGED <<buildMu, last>>
    /\ Install([Now EXCEPT !.rd[r] = [IdleReader EXCEPT !.pc = "loaded", !.fn = fn,
                                                       !.s = st]],
               TRUE)

\* The arguments as they would be if the config came from a second st.Load().
EntityArgsTwoLoads(r) == [res |-> snaps[rd[r].s].res, cfg |-> snaps[st].cfg]

\* The resolver and the config Entity / EntityType use: s.res.Resolve(v, s.cfg).
EntityArgs(r) == [res |-> snaps[rd[r].s].res, cfg |-> snaps[rd[r].s].cfg]

\* The call as it would be if the reader had to wait for buildMu.
ResolveUnderLock(r) ==
    /\ buildMu = NoOne
    /\ rd[r].pc = "loaded"
    /\ rd[r].fn \in {"Entity", "EntityType"}
    /\ UNCHANGED <<buildMu, last>>
    /\ Install([Now EXCEPT !.rd[r].pc = "called",
                           !.rd[r].res = snaps[rd[r].s].res,
                           !.rd[r].cfg = snaps[rd[r].s].cfg],
               TRUE)

\* return s.res.Resolve(v, s.cfg): the call on the resolver is made.
Resolve(r) ==
    /\ rd[r].pc = "loaded"
    /\ rd[r].fn \in {"Entity", "EntityType"}
    /\ UNCHANGED <<buildMu, last>>
    /\ Install([Now EXCEPT !.rd[r].pc = "called",
                           !.rd[r].res = EntityArgs(r).res,
                           !.rd[r].cfg = EntityArgs(r).cfg],
               TRUE)

\* return st.Load().cfg / .reg / .res
Field(r) ==
    /\ rd[r].pc = "loaded"
    /\ rd[r].fn \in {"Config", "Registry", "Resolver"}
    /\ UNCHANGED <<buildMu, last>>
    /\ Install([Now EXCEPT
                  !.rd[r].pc = "called",
                  !.rd[r].cfg = IF rd[r].fn = "Config" THEN snaps[rd[r].s].cfg ELSE @,
                  !.rd[r].reg = IF rd[r].fn = "Registry" THEN snaps[rd[r].s].reg ELSE @,
                  !.rd[r].res = IF rd[r].fn = "Resolver" THEN snaps[rd[r].s].res ELSE @],
               TRUE)

\* The read call returns to its caller.
Done(r) ==
    /\ rd[r].pc = "called"
    /\ UNCHANGED <<buildMu, last>>
    /\ Install([Now EXCEPT !.rd[r] = IdleReader], TRUE)

\* The write calls of the concurrent runs.
ConcurrentCalls ==
    {c \in Calls : \/ c.name \in {"SetConfig", "PinRegistry", "UnpinRegistry"}
                    \/ (c.name = "SetBuilder" /\ c.bld = "mock")}

----------------------------------------------------------------------------

Next ==
    \/ \E c \in Calls, rec \in BOOLEAN : NilReturn(c, rec)
    \/ \E c \in Calls, rec \in BOOLEAN : Write(c, rec)

Spec == Init /\ [][Next]_vars

NextC ==
    \/ \E w \in Writers, c \in ConcurrentCalls : Lock(w, c)
    \/ \E w \in Writers : CallBuildRegistry(w)
    \/ \E w \in Writers : CallBuildResolver(w)
    \/ \E w \in Writers : Publish(w)
    \/ \E w \in Writers : Panic(w)
    \/ \E r \in Readers, fn \in ReaderFns : Load(r, fn)
    \/ \E r \in Readers : Resolve(r)
    \/ \E r \in Readers : Field(r)
    \/ \E r \in Readers : Done(r)

SpecC == Init /\ [][NextC]_vars

\* A step of the write call of w once it holds buildMu: the builder calls
\* return and the goroutine is scheduled.
WriterStep(w) ==
    CallBuildRegistry(w) \/ CallBuildResolver(w) \/ Publish(w) \/ Panic(w)

SpecL == Init /\ [][NextC]_vars /\ \A w \in Writers : WF_vars(WriterStep(w))

----------------------------------------------------------------------------
(* Calls on one registry, one step per shared-memory access.               *)

TypeT == Named("T")
TypeU == Named("U")

\* The configurations registries are created with: the default, and one
\* whose budget unwraps a single level.
ShallowConfig == [DefaultConfig EXCEPT !.MaxUnwrap = 1]

RegistryConfigs == {DefaultConfig, ShallowConfig}

\* The type arguments of Register and Lookup.
TypeArgs ==
    {NilType, TypeT, TypeU, Ptr(TypeT), Ptr(Ptr(TypeT)), Slice(TypeU), Anon,
     Slice(TypeT), Array(TypeT), Chan(TypeT), MapOf(Named("string"), TypeT)}

NameArgs == {"a", "b", ""}

RegisterCall(t, name) == [op |-> "Register", t |-> t, name |-> name]
LookupCall(t) == [op |-> "Lookup", t |-> t, name |-> ""]
PlainCall(op) == [op |-> op, t |-> NilType, name |-> ""]

RegistryOps ==
    {RegisterCall(t, n) : t \in TypeArgs, n \in NameArgs}
        \cup {LookupCall(t) : t \in TypeArgs}
        \cup {PlainCall(op) : op \in {"Entries", "Count", "Reset"}}

\* The calls of the concurrent runs.
ConcurrentOps ==
    {RegisterCall(TypeT, "a"), RegisterCall(Ptr(TypeU), "b"),
     LookupCall(TypeT), PlainCall("Entries"), PlainCall("Count"),
     PlainCall("Reset")}

\* The calls of the racing registrations: one normalized type, two names.
RaceOps == {RegisterCall(t, n) : t \in {TypeT, Ptr(TypeT)}, n \in {"a", "b"}}

ConcurrentGoroutines == {"g1", "g2"}

\* The keys Range can come across: every type a call can normalize to.
Keys ==
    {Normalize(t, registry.cfg).t :
        t \in {x \in TypeArgs : Normalize(x, registry.cfg).err = NoError}}

Finish(f, pc) == [f EXCEPT !.pc = pc]

\* A goroutine between the entry and the return of Entries.
InEntries(f) == f.op = "Entries" /\ f.pc \in {"cap", "range"}

\* Every running Entries call has the map state m in its lifetime.
Witnessed(m) ==
    [h \in Goroutines |->
        IF InEntries(gor[h]) THEN [gor[h] EXCEPT !.during = @ \cup {m}]
        ELSE gor[h]]

\* Register that looks at the name before the type.
RegisterEntryNameFirst(f, cfg) ==
    IF f.name = "" THEN [f EXCEPT !.pc = "done", !.err = ErrEmptyName]
    ELSE IF f.t = NilType THEN [f EXCEPT !.pc = "done", !.err = ErrNilType]
    ELSE IF Normalize(f.t, cfg).err # NoError
    THEN [f EXCEPT !.pc = "done", !.err = Normalize(f.t, cfg).err]
    ELSE [f EXCEPT !.pc = "fast", !.b = Normalize(f.t, cfg).t]

\* Register that binds the type as given.
RegisterEntryRawKey(f, cfg) ==
    IF f.t = NilType THEN [f EXCEPT !.pc = "done", !.err = ErrNilType]
    ELSE IF f.name = "" THEN [f EXCEPT !.pc = "done", !.err = ErrEmptyName]
    ELSE IF Normalize(f.t, cfg).err # NoError
    THEN [f EXCEPT !.pc = "done", !.err = Normalize(f.t, cfg).err]
    ELSE [f EXCEPT !.pc = "fast", !.b = f.t]

\* Register up to its first access of r.m: the argument checks and Normalize.
RegisterEntry(f, cfg) ==
    IF f.t = NilType THEN [f EXCEPT !.pc = "done", !.err = ErrNilType]
    ELSE IF f.name = "" THEN [f EXCEPT !.pc = "done", !.err = ErrEmptyName]
    ELSE IF Normalize(f.t, cfg).err # NoError
    THEN [f EXCEPT !.pc = "done", !.err = Normalize(f.t, cfg).err]
    ELSE [f EXCEPT !.pc = "fast", !.b = Normalize(f.t, cfg).t]

\* Lookup up to its access of r.m.
LookupSkipsNormalize(f, cfg) ==
    IF f.t = NilType THEN [f EXCEPT !.pc = "done"]
    ELSE [f EXCEPT !.pc = "load", !.b = f.t]

LookupEntry(f, cfg) ==
    IF f.t = NilType THEN [f EXCEPT !.pc = "done"]
    ELSE IF Normalize(f.t, cfg).err # NoError THEN [f EXCEPT !.pc = "done"]
    ELSE [f EXCEPT !.pc = "load", !.b = Normalize(f.t, cfg).t]

\* The call c starts on goroutine g; obs keeps the registry as the call found it.
Begin(g, c, obs) ==
    /\ ~registry.fatal
    /\ gor[g].pc = "idle"
    /\ \E f \in {[IdleGoroutine EXCEPT
                    !.op = c.op, !.t = c.t, !.name = c.name,
                    !.pre = IF obs THEN [m |-> registry.m, count |-> registry.count]
                            ELSE NoPre]} :
         gor' = [gor EXCEPT ![g] =
                   IF c.op = "Register" THEN RegisterEntry(f, registry.cfg)
                   ELSE IF c.op = "Lookup" THEN LookupEntry(f, registry.cfg)
                   ELSE IF c.op = "Entries"
                   THEN [f EXCEPT !.pc = "cap", !.during = {registry.m}]
                   ELSE IF c.op = "Count" THEN [f EXCEPT !.pc = "count"]
                   ELSE [f EXCEPT !.pc = "reset"]]
    /\ UNCHANGED <<registry, globalVars, strategyVars, rfx>>

\* Register's fast path: r.m.Load(nt) without the lock.
FastPathIgnoresName(g) ==
    /\ ~registry.fatal
    /\ gor[g].pc = "fast"
    /\ gor' = [gor EXCEPT ![g] =
                 IF MapLoad(registry.m, gor[g].b).ok
                 THEN [@ EXCEPT !.pc = "done", !.err = NoError]
                 ELSE [@ EXCEPT !.pc = "lock"]]
    /\ UNCHANGED <<registry, globalVars, strategyVars, rfx>>

FastPath(g) ==
    /\ ~registry.fatal
    /\ gor[g].pc = "fast"
    /\ gor' = [gor EXCEPT ![g] =
                 IF MapLoad(registry.m, gor[g].b).ok
                 THEN [@ EXCEPT !.pc = "done",
                                !.err = IF MapLoad(registry.m, gor[g].b).v = gor[g].name
                                        THEN NoError
                                        ELSE ErrConflictingRegistration]
                 ELSE [@ EXCEPT !.pc = "lock"]]
    /\ UNCHANGED <<registry, globalVars, strategyVars, rfx>>

\* r.mu.Lock() of Register and of Reset.
MuLock(g) ==
    /\ ~registry.fatal
    /\ gor[g].pc \in {"lock", "reset"}
    /\ registry.mu = NoOne
    /\ registry' = [registry EXCEPT !.mu = g]
    /\ gor' = [gor EXCEPT ![g] =
                 Finish(@, IF gor[g].pc = "lock" THEN "recheck" ELSE "clear")]
    /\ UNCHANGED <<globalVars, strategyVars, rfx>>

\* Register's second Load, under the lock; a bound type returns and unlocks.
RecheckSkipped(g) ==
    /\ ~registry.fatal
    /\ gor[g].pc = "recheck"
    /\ gor' = [gor EXCEPT ![g] = Finish(@, "store")]
    /\ UNCHANGED <<registry, globalVars, strategyVars, rfx>>

Recheck(g) ==
    /\ ~registry.fatal
    /\ gor[g].pc = "recheck"
    /\ IF MapLoad(registry.m, gor[g].b).ok
       THEN /\ gor' = [gor EXCEPT ![g] =
                         [@ EXCEPT !.pc = "done",
                                   !.err = IF MapLoad(registry.m, gor[g].b).v = gor[g].name
                                           THEN NoError
                                           ELSE ErrConflictingRegistration]]
            /\ registry' = [registry EXCEPT !.mu = NoOne]
       ELSE /\ gor' = [gor EXCEPT ![g] = Finish(@, "store")]
            /\ UNCHANGED registry
    /\ UNCHANGED <<globalVars, strategyVars, rfx>>

\* r.m.Store(nt, name).
Store(g) ==
    /\ ~registry.fatal
    /\ gor[g].pc = "store"
    /\ \E m \in {MapStore(registry.m, gor[g].b, gor[g].name)} :
         /\ registry' = [registry EXCEPT !.m = m]
         /\ gor' = [Witnessed(m) EXCEPT ![g] = Finish(@, "incr")]
    /\ UNCHANGED <<globalVars, strategyVars, rfx>>

\* r.count++, return nil, and the deferred Unlock.
Incr(g) ==
    /\ ~registry.fatal
    /\ gor[g].pc = "incr"
    /\ registry' = [registry EXCEPT !.count = @ + 1, !.mu = NoOne]
    /\ gor' = [gor EXCEPT ![g] = [@ EXCEPT !.pc = "done", !.err = NoError]]
    /\ UNCHANGED <<globalVars, strategyVars, rfx>>

\* Lookup's r.m.Load(nt).
LookupLoad(g) ==
    /\ ~registry.fatal
    /\ gor[g].pc = "load"
    /\ gor' = [gor EXCEPT ![g] =
                 [@ EXCEPT !.pc = "done",
                           !.ret = MapLoad(registry.m, gor[g].b).v,
                           !.ok = MapLoad(registry.m, gor[g].b).ok]]
    /\ UNCHANGED <<registry, globalVars, strategyVars, rfx>>

\* r.Count(): Lock, read r.count, Unlock; on its own or as Entries' capacity.
CountRead(g) ==
    /\ ~registry.fatal
    /\ gor[g].pc \in {"count", "cap"}
    /\ registry.mu = NoOne
    /\ gor' = [gor EXCEPT ![g] =
                 [@ EXCEPT !.n = registry.count,
                           !.pc = IF gor[g].pc = "cap" THEN "range" ELSE "done"]]
    /\ UNCHANGED <<registry, globalVars, strategyVars, rfx>>

\* One key of r.m.Range: the key k is looked at now, and appended if bound.
\* Range promises no consistent snapshot, only that no key is visited twice.
RangeVisit(g, k) ==
    /\ ~registry.fatal
    /\ gor[g].pc = "range"
    /\ k \in Keys \ gor[g].visited
    /\ gor' = [gor EXCEPT ![g] =
                 [@ EXCEPT !.visited = @ \cup {k},
                           !.entries = IF k \in DOMAIN registry.m
                                       THEN @ \cup {[Type |-> k, Name |-> registry.m[k]]}
                                       ELSE @,
                           !.pc = IF gor[g].visited \cup {k} = Keys
                                  THEN "done" ELSE "range"]]
    /\ UNCHANGED <<registry, globalVars, strategyVars, rfx>>

\* A goroutine other than g is at an access of r.m that takes no lock.
Unlocked(g) ==
    \E h \in Goroutines \ {g} : gor[h].pc \in {"fast", "load", "range"}

\* Reset's r.m = sync.Map{}: a plain write of the struct. With no reader at
\* an unlocked access the map is empty afterwards; with one, the write is
\* a data race: the map is emptied, or keeps what it had, or the process
\* dies.
ResetMap(g) ==
    /\ ~registry.fatal
    /\ gor[g].pc = "clear"
    /\ \/ /\ registry' = [registry EXCEPT !.m = EmptyMap]
          /\ gor' = [Witnessed(EmptyMap) EXCEPT ![g] = Finish(@, "zero")]
       \/ /\ Unlocked(g)
          /\ registry' = registry
          /\ gor' = [gor EXCEPT ![g] = Finish(@, "zero")]
       \/ /\ Unlocked(g)
          /\ registry' = [registry EXCEPT !.fatal = TRUE]
          /\ gor' = gor
    /\ UNCHANGED <<globalVars, strategyVars, rfx>>

\* Reset's r.count = 0 and the deferred Unlock.
ResetCount(g) ==
    /\ ~registry.fatal
    /\ gor[g].pc = "zero"
    /\ registry' = [registry EXCEPT !.count = 0, !.mu = NoOne]
    /\ gor' = [gor EXCEPT ![g] = Finish(@, "done")]
    /\ UNCHANGED <<globalVars, strategyVars, rfx>>

\* The caller has its results and makes its next call.
Return(g) ==
    /\ ~registry.fatal
    /\ gor[g].pc = "done"
    /\ gor' = [gor EXCEPT ![g] = IdleGoroutine]
    /\ UNCHANGED <<registry, globalVars, strategyVars, rfx>>

InitRegistry ==
    /\ InitGlobal
    /\ registry \in {RegistryNew(c) : c \in RegistryConfigs}
    /\ gor = [g \in Goroutines |-> IdleGoroutine]
    /\ InitStrategy
    /\ InitDefault

\* One caller, every call of the interface, each call observed.
NextR ==
    \/ \E c \in RegistryOps : Begin("g1", c, TRUE)
    \/ FastPath("g1")
    \/ MuLock("g1")
    \/ Recheck("g1")
    \/ Store("g1")
    \/ Incr("g1")
    \/ LookupLoad("g1")
    \/ CountRead("g1")
    \/ \E k \in Keys : RangeVisit("g1", k)
    \/ ResetMap("g1")
    \/ ResetCount("g1")
    \/ Return("g1")

SpecR == InitRegistry /\ [][NextR]_vars

\* Two callers, interleaved at every access.
NextRC ==
    \/ \E g \in ConcurrentGoroutines, c \in ConcurrentOps : Begin(g, c, FALSE)
    \/ \E g \in ConcurrentGoroutines : FastPath(g)
    \/ \E g \in ConcurrentGoroutines : MuLock(g)
    \/ \E g \in ConcurrentGoroutines : Recheck(g)
    \/ \E g \in ConcurrentGoroutines : Store(g)
    \/ \E g \in ConcurrentGoroutines : Incr(g)
    \/ \E g \in ConcurrentGoroutines : LookupLoad(g)
    \/ \E g \in ConcurrentGoroutines : CountRead(g)
    \/ \E g \in ConcurrentGoroutines, k \in Keys : RangeVisit(g, k)
    \/ \E g \in ConcurrentGoroutines : ResetMap(g)
    \/ \E g \in ConcurrentGoroutines : ResetCount(g)
    \/ \E g \in ConcurrentGoroutines : Return(g)

SpecRC == InitRegistry /\ [][NextRC]_vars

\* Every goroutine registers once, on a registry that starts empty.
NextRace ==
    \/ \E g \in Goroutines, c \in RaceOps : Begin(g, c, FALSE)
    \/ \E g \in Goroutines : FastPath(g)
    \/ \E g \in Goroutines : MuLock(g)
    \/ \E g \in Goroutines : Recheck(g)
    \/ \E g \in Goroutines : Store(g)
    \/ \E g \in Goroutines : Incr(g)

SpecRace == InitRegistry /\ [][NextRace]_vars

\* One caller whose first successful registration is remembered; it calls
\* Reset only before that.
ReturnRegistered(g) ==
    /\ ~registry.fatal
    /\ probe = NoProbe
    /\ gor[g].pc = "done"
    /\ gor[g].op = "Register"
    /\ gor[g].err = NoError
    /\ gor' = [gor EXCEPT ![g] = IdleGoroutine]
    /\ probe' = [fn |-> "Registered", t |-> gor[g].t, name |-> gor[g].name]
    /\ UNCHANGED <<registry, typeNameCache, globalVars, rfx>>

NextRL ==
    \/ \E c \in RegistryOps \ {PlainCall("Reset")} : Begin("g1", c, TRUE)
    \/ (probe = NoProbe /\ Begin("g1", PlainCall("Reset"), TRUE))
    \/ FastPath("g1")
    \/ MuLock("g1")
    \/ Recheck("g1")
    \/ Store("g1")
    \/ Incr("g1")
    \/ LookupLoad("g1")
    \/ CountRead("g1")
    \/ \E k \in Keys : RangeVisit("g1", k)
    \/ ResetMap("g1")
    \/ ResetCount("g1")
    \/ Return("g1")
    \/ ReturnRegistered("g1")

SpecRL == InitRegistry /\ [][NextRL]_vars

----------------------------------------------------------------------------
(* Calls of Normalize on its own.                                          *)

WrapKinds == {"ptr", "slice", "array", "chan"}

\* An unnamed pointer, slice, array or channel type of element type e.
Wrap(k, e) == [kind |-> k, name |-> "", elem |-> e]

\* The type e under the wrappers q, outermost first.
RECURSIVE Nest(_, _)
Nest(q, e) == IF q = <<>> THEN e ELSE Wrap(Head(q), Nest(Tail(q), e))

KindSeqs == UNION {[1..d -> WrapKinds] : d \in 0..MaxDepth}

TypeK == Named("K")
TypeV == Named("V")

\* Key and element types of the map arguments.
MapSides == {TypeK, TypeV, Anon, Ptr(TypeK), Ptr(TypeV)}

MapTypes == {MapOf(k, e) : k \in MapSides, e \in MapSides}

\* type IDs []T
TypeIDs == NamedAs("IDs", Slice(TypeT))

\* Arguments that hold a declared slice type.
DeclaredContainers == {TypeIDs, Ptr(TypeIDs), MapOf(TypeK, TypeIDs)}

\* A map argument is passed bare or under one wrapper.
NormalizeTypes ==
    {NilType}
        \cup {Nest(q, e) : q \in KindSeqs, e \in {TypeT, Anon}}
        \cup MapTypes
        \cup {Wrap(k, e) : k \in WrapKinds, e \in MapTypes}
        \cup DeclaredContainers

\* The budgets: none, negative, each depth of the arguments, the default.
UnwrapArgs == (-1 .. MaxDepth) \cup {DefaultMaxUnwrap}

NormalizeConfigs ==
    {[IncludeBuiltins |-> TRUE, MaxUnwrap |-> n, MapPreferElem |-> p] :
        n \in UnwrapArgs, p \in BOOLEAN}

CallNormalize(t, cfg) ==
    /\ probe = NoProbe
    /\ probe' = [fn |-> "Normalize", t |-> t, cfg |-> cfg, out |-> Normalize(t, cfg)]
    /\ UNCHANGED <<typeNameCache, registryVars, globalVars, rfx>>

\* The caller has the result.
ProbeReturn ==
    /\ probe # NoProbe
    /\ probe' = NoProbe
    /\ UNCHANGED <<typeNameCache, registryVars, globalVars, rfx>>

\* registry.New(cfg).
CallRegistryNew(cfg) ==
    /\ probe = NoProbe
    /\ probe' = [fn |-> "New", cfg |-> cfg, out |-> RegistryNew(cfg)]
    /\ UNCHANGED <<typeNameCache, registryVars, globalVars, rfx>>

NextN ==
    \/ \E t \in NormalizeTypes, cfg \in NormalizeConfigs : CallNormalize(t, cfg)
    \/ \E cfg \in NormalizeConfigs : CallRegistryNew(cfg)
    \/ ProbeReturn

SpecN == Init /\ [][NextN]_vars

----------------------------------------------------------------------------
(* The strategies and the resolver chain.                                  *)

\* The characters of a text, joined.
RECURSIVE Concat(_)
Concat(q) == IF q = <<>> THEN "" ELSE Head(q) \o Concat(Tail(q))

\* A struct type declared as base, or instantiated as base[targs], in the
\* package of import path pkg (path elements; none for a builtin). chars
\* spells what Name() returns, and no piece of it but "[" holds a '['.
Declared(pkg, base, targs) ==
    [kind |-> "struct",
     name |-> Concat(IF targs = <<>> THEN <<base>> ELSE <<base, "[">> \o targs \o <<"]">>),
     chars |-> IF targs = <<>> THEN <<base>> ELSE <<base, "[">> \o targs \o <<"]">>,
     pkg |-> pkg]

StrategyPkg == <<"dirpx.dev", "rfx", "strategy">>

TypeA == Declared(StrategyPkg, "A", <<>>)
TypeB == Declared(StrategyPkg, "B", <<>>)
TypeG == Declared(StrategyPkg, "G", <<"int">>)
TypeInt == Declared(<<>>, "int", <<>>)

\* A value in an `any`: its dynamic type, and what EntityName returns when
\* the type implements Namer. The nil interface has no type.
PlainValue(t) == [type |-> t, namer |-> FALSE, entityName |-> ""]
SelfNamed(t, n) == [type |-> t, namer |-> TRUE, entityName |-> n]
NilValue == PlainValue(NilType)

\* int16(n): the low 16 bits, two's complement.
Int16(n) == ((n + 32768) % 65536) - 32768

cacheKey(t, cfg) ==
    [t |-> t, includeBuiltin |-> cfg.IncludeBuiltins,
     maxUnwrap |-> Int16(cfg.MaxUnwrap), mapPreferElem |-> cfg.MapPreferElem]

\* strings.IndexByte(s, '['), counted in pieces from 1; 0 when there is none.
IndexBracket(chars) ==
    IF \E i \in 1..Len(chars) : chars[i] = "["
    THEN CHOOSE i \in 1..Len(chars) :
            chars[i] = "[" /\ \A j \in 1..(i - 1) : chars[j] # "["
    ELSE 0

stripTypeParams(chars) ==
    IF IndexBracket(chars) > 0
    THEN Concat(SubSeq(chars, 1, IndexBracket(chars) - 1))
    ELSE Concat(chars)

\* path.Base of a non-empty import path.
PathBase(pkg) == pkg[Len(pkg)]

\* byType on the memo `cache`: the name, and the memo afterwards.
byType(t, cfg, cache) ==
    IF MapLoad(cache, cacheKey(t, cfg)).ok
    THEN [name |-> MapLoad(cache, cacheKey(t, cfg)).v, cache |-> cache]
    ELSE LET base == Normalize(t, cfg)
             name == IF base.err # NoError THEN ""
                     ELSE IF base.t.pkg # <<>>
                     THEN PathBase(base.t.pkg) \o "." \o stripTypeParams(base.t.chars)
                     ELSE IF ~cfg.IncludeBuiltins THEN ""
                     ELSE stripTypeParams(base.t.chars)
         IN  [name |-> name, cache |-> MapStore(cache, cacheKey(t, cfg), name)]

\* r.Lookup(t) with no call running on r.
Lookup(r, t) ==
    IF t = NilType THEN [v |-> "", ok |-> FALSE]
    ELSE IF Normalize(t, r.cfg).err # NoError THEN [v |-> "", ok |-> FALSE]
    ELSE MapLoad(r.m, Normalize(t, r.cfg).t)

\* The address of the registry of this model.
RegistryAddr == 1

Declined(cache) == [name |-> "", ok |-> FALSE, cache |-> cache]

\* The namer strategy declining a value that reports the empty name.
TryResolveEmptyDeclines(s, v, cfg, r, cache) ==
    IF s.kind = "namer"
    THEN IF v = NilValue THEN Declined(cache)
         ELSE IF v.namer /\ v.entityName # ""
         THEN [name |-> v.entityName, ok |-> TRUE, cache |-> cache]
         ELSE Declined(cache)
    ELSE IF s.kind = "registry"
    THEN IF v = NilValue \/ s.reg = NULL THEN Declined(cache)
         ELSE [name |-> Lookup(r, v.type).v, ok |-> Lookup(r, v.type).ok, cache |-> cache]
    ELSE IF v = NilValue THEN Declined(cache)
         ELSE [name |-> byType(v.type, cfg, cache).name, ok |-> TRUE,
               cache |-> byType(v.type, cfg, cache).cache]

\* s.TryResolve(v, cfg) on the registry r and the memo `cache`.
TryResolve(s, v, cfg, r, cache) ==
    IF s.kind = "namer"
    THEN IF v = NilValue THEN Declined(cache)
         ELSE IF v.namer THEN [name |-> v.entityName, ok |-> TRUE, cache |-> cache]
         ELSE Declined(cache)
    ELSE IF s.kind = "registry"
    THEN IF v = NilValue \/ s.reg = NULL THEN Declined(cache)
         ELSE [name |-> Lookup(r, v.type).v, ok |-> Lookup(r, v.type).ok, cache |-> cache]
    ELSE IF v = NilValue THEN Declined(cache)
         ELSE [name |-> byType(v.type, cfg, cache).name, ok |-> TRUE,
               cache |-> byType(v.type, cfg, cache).cache]

\* The reflect strategy declining when it has no name.
TryResolveTypeDeclinesUnnamed(s, t, cfg, r, cache) ==
    IF s.kind = "namer" THEN Declined(cache)
    ELSE IF s.kind = "registry"
    THEN IF t = NilType \/ s.reg = NULL THEN Declined(cache)
         ELSE [name |-> Lookup(r, t).v, ok |-> Lookup(r, t).ok, cache |-> cache]
    ELSE IF t = NilType THEN Declined(cache)
         ELSE [name |-> byType(t, cfg, cache).name,
               ok |-> byType(t, cfg, cache).name # "",
               cache |-> byType(t, cfg, cache).cache]

\* s.TryResolveType(t, cfg).
TryResolveType(s, t, cfg, r, cache) ==
    IF s.kind = "namer" THEN Declined(cache)
    ELSE IF s.kind = "registry"
    THEN IF t = NilType \/ s.reg = NULL THEN Declined(cache)
         ELSE [name |-> Lookup(r, t).v, ok |-> Lookup(r, t).ok, cache |-> cache]
    ELSE IF t = NilType THEN Declined(cache)
         ELSE [name |-> byType(t, cfg, cache).name, ok |-> TRUE,
               cache |-> byType(t, cfg, cache).cache]

\* resolver.New that keeps the nil strategies.
ResolverNewKeepsNil(strategies) == strategies

\* resolver.New: the strategies that are not nil, in the order given.
ResolverNew(strategies) == SelectSeq(strategies, LAMBDA s : s # NilStrategy)

\* The argument of a resolve call: a value, or a type.
ByValue(v) == [typed |-> FALSE, v |-> v, t |-> NilType]
ByType(t) == [typed |-> TRUE, v |-> NilValue, t |-> t]

Try(s, in, cfg, r, cache) ==
    IF s = NilStrategy THEN [name |-> "", ok |-> TRUE, cache |-> cache, panic |-> TRUE]
    ELSE IF in.typed
    THEN [panic |-> FALSE] @@ TryResolveType(s, in.t, cfg, r, cache)
    ELSE [panic |-> FALSE] @@ TryResolve(s, in.v, cfg, r, cache)

\* The loop of chain.Resolve / chain.ResolveType from strategy i on; called
\* lists the strategies tried so far.
RECURSIVE ChainWalk(_, _, _, _, _, _, _)
ChainWalk(strats, i, in, cfg, r, cache, called) ==
    IF i > Len(strats)
    THEN [name |-> "", called |-> called, cache |-> cache, panic |-> FALSE]
    ELSE LET got == Try(strats[i], in, cfg, r, cache)
         IN  IF got.ok
             THEN [name |-> got.name, called |-> Append(called, strats[i]),
                   cache |-> got.cache, panic |-> got.panic]
             ELSE ChainWalk(strats, i + 1, in, cfg, r, got.cache,
                            Append(called, strats[i]))

MaxStrategies == 3   \* strategies passed to resolver.New
MaxCached == 2       \* entries of typeNameCache

Strategies ==
    {NilStrategy, NamerStrategy, RegistryStrategy(RegistryAddr), ReflectStrategy}

StrategyLists == UNION {[1..n -> Strategies] : n \in 0..MaxStrategies}

ChainValues ==
    {NilValue, SelfNamed(TypeA, "custom.A"), SelfNamed(TypeA, ""),
     PlainValue(TypeA), PlainValue(Ptr(TypeB))}

ChainTypes == {NilType, TypeA, Ptr(TypeB)}

ChainArgs == {ByValue(v) : v \in ChainValues} \cup {ByType(t) : t \in ChainTypes}

ChainRegisters == {RegisterCall(Ptr(TypeA), "domain.A")}

\* resolver.New(strategies...) and then Resolve(v, cfg) or ResolveType(t, cfg).
CallResolve(strategies, in, cfg) ==
    /\ probe = NoProbe
    /\ \E out \in {ChainWalk(ResolverNew(strategies), 1, in, cfg, registry,
                             typeNameCache, <<>>)} :
         /\ probe' = [fn |-> "Resolve", given |-> strategies,
                      strats |-> ResolverNew(strategies), in |-> in, cfg |-> cfg,
                      name |-> out.name, called |-> out.called,
                      panic |-> out.panic, reg |-> registry,
                      pre |-> typeNameCache]
         /\ typeNameCache' = out.cache
    /\ UNCHANGED <<registryVars, globalVars, rfx>>

NextChain ==
    \/ \E c \in ChainRegisters : Begin("g1", c, FALSE)
    \/ FastPath("g1")
    \/ MuLock("g1")
    \/ Recheck("g1")
    \/ Store("g1")
    \/ Incr("g1")
    \/ Return("g1")
    \/ \E q \in StrategyLists, in \in ChainArgs : CallResolve(q, in, DefaultConfig)
    \/ ProbeReturn

SpecChain == Init /\ [][NextChain]_vars

\* Calls of one strategy. The last budget is past the range of int16.
StrategyConfigs ==
    {DefaultConfig,
     [DefaultConfig EXCEPT !.IncludeBuiltins = FALSE],
     [DefaultConfig EXCEPT !.MapPreferElem = FALSE],
     [DefaultConfig EXCEPT !.MaxUnwrap = 1],
     [DefaultConfig EXCEPT !.MaxUnwrap = 65537]}

DeclaredTypes == {TypeA, TypeG, TypeInt}

StrategyTypes ==
    {NilType, Anon, Ptr(Ptr(TypeA)), MapOf(TypeInt, TypeA)} \cup DeclaredTypes

StrategyArgs ==
    {ByType(t) : t \in StrategyTypes}
        \cup {ByValue(PlainValue(t)) : t \in StrategyTypes}

\* The memo has room for the key, or holds it.
Cacheable(in, cfg) ==
    \/ Cardinality(DOMAIN typeNameCache) < MaxCached
    \/ cacheKey(IF in.typed THEN in.t ELSE in.v.type, cfg) \in DOMAIN typeNameCache

CallTry(s, in, cfg) ==
    /\ probe = NoProbe
    /\ Cacheable(in, cfg)
    /\ \E out \in {Try(s, in, cfg, registry, typeNameCache)} :
         /\ probe' = [fn |-> "Try", s |-> s, in |-> in, cfg |-> cfg,
                      name |-> out.name, ok |-> out.ok, reg |-> registry,
                      pre |-> typeNameCache]
         /\ typeNameCache' = out.cache
    /\ UNCHANGED <<registryVars, globalVars, rfx>>

NextT ==
    \/ \E in \in StrategyArgs, cfg \in StrategyConfigs :
          CallTry(ReflectStrategy, in, cfg)
    \/ ProbeReturn

SpecT == Init /\ [][NextT]_vars

----------------------------------------------------------------------------
(* The package run with builder.New(): the registries hold their entries   *)
(* and the resolver is the default chain.  rfx.regs is the heap of the     *)
(* registries built so far, by address; a state struct holds the address   *)
(* of its registry, and its resolver is the chain, whose registry strategy *)
(* holds the address it was built over.  A registry the published state   *)
(* does not reach any more is collected when the call returns.             *)

\* r.Register(t, name) with no other call running on r: the registry after
\* the call, and the error returned.
Register(r, t, name) ==
    IF t = NilType THEN [r |-> r, err |-> ErrNilType]
    ELSE IF name = "" THEN [r |-> r, err |-> ErrEmptyName]
    ELSE IF Normalize(t, r.cfg).err # NoError
    THEN [r |-> r, err |-> Normalize(t, r.cfg).err]
    ELSE IF MapLoad(r.m, Normalize(t, r.cfg).t).ok
    THEN [r |-> r,
          err |-> IF MapLoad(r.m, Normalize(t, r.cfg).t).v = name
                  THEN NoError ELSE ErrConflictingRegistration]
    ELSE [r |-> [r EXCEPT !.m = MapStore(r.m, Normalize(t, r.cfg).t, name),
                          !.count = r.count + 1],
          err |-> NoError]

\* The orders in which Range can yield the entries E (the order is
\* unspecified).
Orders(E) ==
    {q \in [1..Cardinality(E) -> E] :
        \A i, j \in 1..Cardinality(E) : q[i] = q[j] => i = j}

\* The loop of BuildRegistry over the entries q; the error of Register is
\* dropped.
RECURSIVE Reregister(_, _)
Reregister(nreg, q) ==
    IF q = <<>> THEN nreg
    ELSE Reregister(Register(nreg, Head(q).Type, Head(q).Name).r, Tail(q))

\* builder.BuildRegistry(cfg, preg, _) with preg.Entries() yielding q.
BuildRegistryDefault(cfg, q) == Reregister(RegistryNew(cfg), q)

\* The address held by the registry strategy of a chain.
BoundRegistry(strats) ==
    strats[CHOOSE i \in DOMAIN strats : strats[i].kind = "registry"].reg

\* type As []A
TypeAs == NamedAs("As", Slice(TypeA)) @@ [chars |-> <<"As">>, pkg |-> StrategyPkg]

\* The writes, the registrations and the lookups of these runs.
ConfigCalls ==
    {Call("SetConfig", <<c>>, NoExt, NULL, NULL, NoBuilder) :
        c \in {DefaultConfig, ShallowConfig}}

DefaultCalls ==
    ConfigCalls
        \cup {Call("SetExt", <<>>, "ext42", NULL, NULL, NoBuilder)}
        \cup {Call(n, <<>>, NoExt, NULL, NULL, NoBuilder) :
                 n \in {"PinRegistry", "UnpinRegistry", "PinResolver", "UnpinResolver"}}

DefaultRegisters ==
    {RegisterCall(TypeA, "domain.A"),
     RegisterCall(Ptr(TypeB), "domain.B"),
     RegisterCall(MapOf(TypeInt, TypeAs), "domain.As")}

PlainRegisters ==
    {RegisterCall(TypeA, "domain.A"), RegisterCall(Ptr(TypeB), "domain.B")}

EntityTypes == {TypeA}

\* The chain strats with its registry strategy holding the address a.
Rebind(strats, a) ==
    [i \in DOMAIN strats |->
        IF strats[i].kind = "registry" THEN RegistryStrategy(a) ELSE strats[i]]

\* The heap of x after a collection with no call running: the published
\* registry at address 1, the registry the published resolver holds, when
\* it is another one, at address 2.
Collect(x) ==
    IF x.st.reg = BoundRegistry(x.st.res)
    THEN [x EXCEPT !.regs = <<x.regs[x.st.reg]>>,
                   !.st.reg = 1,
                   !.st.res = Rebind(x.st.res, 1)]
    ELSE [x EXCEPT !.regs = <<x.regs[x.st.reg], x.regs[BoundRegistry(x.st.res)]>>,
                   !.st.reg = 1,
                   !.st.res = Rebind(x.st.res, 2)]

\* buildMu.Lock() and old := st.Load().
DefaultLock(c) ==
    /\ rfx.w.pc = "idle"
    /\ rfx.mu = NoOne
    /\ rfx' = [rfx EXCEPT !.mu = "w1",
                          !.w = [IdleCall EXCEPT !.pc = "locked", !.call = c,
                                                 !.old = rfx.st]]
    /\ UNCHANGED <<registryVars, globalVars, strategyVars>>

\* nreg: the old registry, or b.BuildRegistry(cfg, old.reg, ext) when the
\* handler rebuilds it.
DefaultBuildRegistry ==
    /\ rfx.w.pc = "locked"
    /\ \E pl \in {PlanOf(rfx.w.call, rfx.w.old)} :
          IF pl.buildReg
          THEN \E q \in Orders(EntriesOf(rfx.regs[rfx.w.old.reg].m)) :
                  \E nreg \in {BuildRegistryDefault(pl.cfg, q)} :
                     rfx' = [rfx EXCEPT
                               !.regs = Append(@, nreg),
                               !.w.pc = "built",
                               !.w.nreg = Len(rfx.regs) + 1,
                               !.w.build = [prev |-> rfx.w.old.reg,
                                            before |-> rfx.regs[rfx.w.old.reg],
                                            nreg |-> Len(rfx.regs) + 1,
                                            after |-> nreg]]
          ELSE rfx' = [rfx EXCEPT !.w.pc = "built", !.w.nreg = pl.reg]
    /\ UNCHANGED <<registryVars, globalVars, strategyVars>>

\* nres: the old resolver, or b.BuildResolver(cfg, nreg, old.res, ext); then
\* st.Store and the deferred Unlock. builder.New() never returns nil.
DefaultPublish ==
    /\ rfx.w.pc = "built"
    /\ \E pl \in {PlanOf(rfx.w.call, rfx.w.old)} :
          rfx' = [rfx EXCEPT
                    !.st = NewState(pl, rfx.w.nreg,
                                    IF pl.buildRes THEN DefaultChain(rfx.w.nreg)
                                    ELSE pl.res),
                    !.mu = NoOne,
                    !.w.pc = "done"]
    /\ UNCHANGED <<registryVars, globalVars, strategyVars>>

DefaultReturn ==
    /\ rfx.w.pc = "done"
    /\ rfx' = Collect([rfx EXCEPT !.w = IdleCall])
    /\ UNCHANGED <<registryVars, globalVars, strategyVars>>

\* RegisterType(t, name): st.Load().reg ...
RegisterTypeLoad(c) ==
    /\ rfx.r.pc = "idle"
    /\ rfx' = [rfx EXCEPT !.r = [IdleRegister EXCEPT !.pc = "loaded",
                                                     !.reg = rfx.st.reg,
                                                     !.t = c.t, !.name = c.name]]
    /\ UNCHANGED <<registryVars, globalVars, strategyVars>>

\* ... .Register(t, name) on the registry loaded.
RegisterTypeRegister ==
    /\ rfx.r.pc = "loaded"
    /\ \E out \in {Register(rfx.regs[rfx.r.reg], rfx.r.t, rfx.r.name)} :
          rfx' = [rfx EXCEPT
                    !.regs[rfx.r.reg] = out.r,
                    !.r.pc = "done",
                    !.r.err = out.err,
                    !.ok = IF out.err = NoError
                           THEN @ \cup {[t |-> rfx.r.t, name |-> rfx.r.name]}
                           ELSE @]
    /\ UNCHANGED <<registryVars, globalVars, strategyVars>>

RegisterTypeReturn ==
    /\ rfx.r.pc = "done"
    /\ rfx' = [rfx EXCEPT !.r = IdleRegister]
    /\ UNCHANGED <<registryVars, globalVars, strategyVars>>

\* EntityType(t): s := st.Load(); s.res.ResolveType(t, s.cfg).
CallEntityType(t) ==
    /\ probe = NoProbe
    /\ Cacheable(ByType(t), rfx.st.cfg)
    /\ \E out \in {ChainWalk(rfx.st.res, 1, ByType(t), rfx.st.cfg,
                             rfx.regs[BoundRegistry(rfx.st.res)],
                             typeNameCache, <<>>)} :
          /\ probe' = [fn |-> "EntityType", t |-> t, name |-> out.name,
                       called |-> out.called]
          /\ typeNameCache' = out.cache
    /\ UNCHANGED <<registryVars, globalVars, rfx>>

\* No call of the package is running.
Quiescent == rfx.w.pc = "idle" /\ rfx.r.pc = "idle" /\ probe = NoProbe

\* One goroutine: a call starts when the one before has returned.
NextD ==
    \/ \E c \in DefaultCalls : Quiescent /\ DefaultLock(c)
    \/ DefaultBuildRegistry
    \/ DefaultPublish
    \/ DefaultReturn
    \/ \E c \in DefaultRegisters : Quiescent /\ RegisterTypeLoad(c)
    \/ RegisterTypeRegister
    \/ RegisterTypeReturn
    \/ \E t \in EntityTypes : Quiescent /\ CallEntityType(t)
    \/ ProbeReturn

SpecD == Init /\ [][NextD]_vars

\* Both goroutines have returned: the next round starts.
Join ==
    /\ rfx.w.pc = "done"
    /\ rfx.r.pc = "done"
    /\ probe = NoProbe
    /\ rfx' = Collect([rfx EXCEPT !.w = IdleCall, !.r = IdleRegister])
    /\ UNCHANGED <<registryVars, globalVars, strategyVars>>

\* One goroutine calls SetConfig while another calls RegisterType; a third
\* calls EntityType when neither is in a call.
NextDC ==
    \/ \E c \in ConfigCalls : DefaultLock(c)
    \/ DefaultBuildRegistry
    \/ DefaultPublish
    \/ \E c \in PlainRegisters : RegisterTypeLoad(c)
    \/ RegisterTypeRegister
    \/ Join
    \/ \E t \in EntityTypes :
          /\ rfx.w.pc \in {"idle", "done"}
          /\ rfx.r.pc \in {"idle", "done"}
          /\ CallEntityType(t)
    \/ ProbeReturn

SpecDC == Init /\ [][NextDC]_vars

----------------------------------------------------------------------------
(* Properties of the sequential runs (Spec).                               *)

\* The state published now, and what the observed call (if any) started from.
Cur == snaps[st]

Stored(name) == last.call.name = name /\ last.outcome = "stored"

RegistryCalls == {i \in DOMAIN last.calls : last.calls[i].fn = "BuildRegistry"}

ResolverCalls == {i \in DOMAIN last.calls : last.calls[i].fn = "BuildResolver"}

NilReturned == \E i \in DOMAIN last.calls : last.calls[i].ret = NULL

\* The resolver of state s was made by s's builder from s's registry and config.
BuiltFrom(s) ==
    /\ s.res # NULL
    /\ ress[s.res].by = s.bld
    /\ ress[s.res].reg = s.reg
    /\ ress[s.res].cfg = s.cfg

\* C1: after init and after any sequence of writes, with builders that may
\* return nil, the published state's registry and resolver are both non-nil.
C1_LayersNonNil == Cur.reg # NULL /\ Cur.res # NULL

\* A write whose builder returned nil has run, and the published layers are
\* still non-nil.
C1_Witness == NilReturned /\ Cur.reg # NULL /\ Cur.res # NULL

\* C2 as stated: in every published state with pres = false the resolver is
\* one the builder made from that state's registry and config.
C2_UnpinnedResolverBuilt == ~Cur.pres => BuiltFrom(Cur)

\* C2, amended: in every published state with pres = false whose resolver has
\* never been the resolver of a state with pres = true, the resolver is one
\* the state's builder made from that state's registry and config.
C2_NeverPinnedResolverBuilt ==
    (~Cur.pres /\ Cur.res # NULL /\ ~ress[Cur.res].pinned) => BuiltFrom(Cur)

\* SetConfig ran on a state whose resolver had been pinned and unpinned again,
\* and published a resolver that has never been pinned.
C2_Witness ==
    /\ Stored("SetConfig")
    /\ ~last.pre.pres
    /\ ress[last.pre.res].pinned
    /\ ~Cur.pres
    /\ ~ress[Cur.res].pinned

\* C6: when a builder returns a nil registry or a nil resolver during a write,
\* the write panics with ErrNilRegistry / ErrNilResolver and stores nothing:
\* the published state is the very one published before the call.
C6_NilLayerPublishesNothing ==
    NilReturned =>
        /\ last.outcome \in {ErrNilRegistry, ErrNilResolver}
        /\ st = last.prePtr
        /\ Cur = last.pre

\* SetRegistry's resolver rebuild returned nil.
C6_Witness ==
    /\ last.call.name = "SetRegistry"
    /\ NilReturned
    /\ last.outcome = ErrNilResolver

\* C7: after SetRegistry(R) the published registry is R until UnpinRegistry,
\* SetRegistry or SetAll is called; after SetResolver(S) the published
\* resolver is S until UnpinResolver, SetResolver or SetAll is called.
C7_PinnedLayerKept ==
    /\ held.reg # NULL => Cur.reg = held.reg
    /\ held.res # NULL => Cur.res = held.res

\* SetBuilder rebuilt the resolver and kept the registry SetRegistry had set.
C7_Witness ==
    /\ Stored("SetBuilder")
    /\ held.reg # NULL
    /\ held.res = NULL
    /\ ResolverCalls # {}
    /\ Cur.res # last.pre.res

C9_SetRegistryPost ==
    Stored("SetRegistry") =>
        LET o == last.pre
            R == last.call.reg
        IN /\ Cur.reg = R
           /\ RegistryCalls = {}
           /\ Cur.preg
           /\ Cur.cfg = o.cfg /\ Cur.ext = o.ext /\ Cur.bld = o.bld
           /\ Cur.pres = o.pres
           /\ IF o.pres
              THEN Cur.res = o.res /\ last.calls = <<>>
              ELSE /\ Cur.res # o.res
                   /\ last.calls = <<BuilderCall("BuildResolver", o.bld, o.cfg, R,
                                                 o.res, o.ext, Cur.res)>>

\* SetRegistry replaced an unpinned registry and the resolver was rebuilt.
C9_Witness ==
    /\ Stored("SetRegistry")
    /\ ~last.pre.preg /\ ~last.pre.pres
    /\ Cur.reg # last.pre.reg
    /\ Len(last.calls) = 1

\* C10: SetResolver(S), S non-nil, changes only res (to S) and pres (to true):
\* reg, preg, cfg, ext and builder are those of the previous state, and no
\* builder method is called.
C10_SetResolverFrame ==
    (last.call.name = "SetResolver" /\ last.call.res # NULL) =>
        /\ last.outcome = "stored"
        /\ Cur.res = last.call.res
        /\ Cur.pres
        /\ Cur.reg = last.pre.reg
        /\ Cur.preg = last.pre.preg
        /\ Cur.cfg = last.pre.cfg
        /\ Cur.ext = last.pre.ext
        /\ Cur.bld = last.pre.bld
        /\ last.calls = <<>>

\* SetResolver replaced the resolver of a state with neither layer pinned.
C10_Witness ==
    /\ Stored("SetResolver")
    /\ ~last.pre.preg /\ ~last.pre.pres
    /\ Cur.res # last.pre.res

----------------------------------------------------------------------------
(* Properties of the concurrent runs (SpecC).                              *)

InFlight == {w \in Writers : fr[w].pc # "idle"}

\* C3: every Entity / EntityType call passes its resolver a (resolver, config)
\* pair that is the pair of one published state, whatever writers do
\* meanwhile; the state a reader holds is a complete one.
C3_OneSnapshotPair ==
    \A r \in Readers :
        /\ rd[r].pc # "idle" =>
              /\ snaps[rd[r].s].bld # NoBuilder
              /\ snaps[rd[r].s].reg # NULL
              /\ snaps[rd[r].s].res # NULL
        /\ (rd[r].pc = "called" /\ rd[r].fn \in {"Entity", "EntityType"}) =>
              \E p \in PtrIds :
                  /\ snaps[p].bld # NoBuilder
                  /\ snaps[p].res = rd[r].res
                  /\ snaps[p].cfg = rd[r].cfg

\* An Entity call made its resolver call after a writer had published another
\* resolver and another config.
C3_Witness ==
    \E r \in Readers :
        /\ rd[r].pc = "called"
        /\ rd[r].fn = "Entity"
        /\ rd[r].res # Cur.res
        /\ rd[r].cfg # Cur.cfg

\* C4: writes exclude one another and none is lost: at most one write is
\* between Lock and Unlock, it holds buildMu, the state it loaded is still the
\* published one, and so what it stores is its handler applied to the state
\* the previous write published.
C4_WritesSerial ==
    /\ Cardinality(InFlight) <= 1
    /\ \A w \in InFlight :
          /\ buildMu = w
          /\ fr[w].old = st
          /\ PlanOf(fr[w].call, snaps[fr[w].old]) = PlanOf(fr[w].call, Cur)
    /\ InFlight = {} => buildMu = NoOne

\* SetConfig is in its resolver build on a state PinRegistry published, and
\* the other writer cannot get past Lock.
C4_Witness ==
    /\ fr["w2"].pc = "res"
    /\ fr["w2"].call.name = "SetConfig"
    /\ Cur.preg
    /\ ~ENABLED (\E c \in ConcurrentCalls : Lock("w1", c))

\* C5: a read call never waits for a writer: in every state, also while a
\* writer holds buildMu inside a builder call that may never return, each of
\* Entity, EntityType, Config, Registry and Resolver can start, and a started
\* call can take its next step up to its return; what it returns comes from
\* the state it loaded.
C5_ReadersNeverBlock ==
    \A r \in Readers :
        /\ rd[r].pc = "idle" => \A fn \in ReaderFns : ENABLED Load(r, fn)
        /\ rd[r].pc = "loaded" => ENABLED (Resolve(r) \/ Field(r))
        /\ rd[r].pc = "called" => ENABLED Done(r)
        /\ (rd[r].pc = "called" /\ rd[r].fn = "Config") => rd[r].cfg = snaps[rd[r].s].cfg
        /\ (rd[r].pc = "called" /\ rd[r].fn = "Registry") => rd[r].reg = snaps[rd[r].s].reg
        /\ (rd[r].pc = "called" /\ rd[r].fn = "Resolver") => rd[r].res = snaps[rd[r].s].res

\* A reader has loaded the state while a writer is inside BuildRegistry.
C5_Witness ==
    \E r \in Readers, w \in Writers :
        /\ buildMu = w
        /\ fr[w].pc = "reg"
        /\ rd[r].pc = "loaded"
        /\ rd[r].fn = "Entity"

\* C39: a write call that holds buildMu, whether it goes on to publish or to
\* abort with a nil layer, eventually releases it and is back at idle, so
\* that the next write call can take the lock.
C39_LockReleased ==
    \A w \in Writers : (buildMu = w) ~> (buildMu = NoOne /\ fr[w].pc = "idle")

\* A write call holds the lock and is about to abort on a nil layer.
C39_Witness ==
    \E w \in Writers :
        /\ buildMu = w
        /\ fr[w].pc = "store"
        /\ NilCheck(PlanOf(fr[w].call, snaps[fr[w].old]), fr[w].nreg, fr[w].nres) # "ok"

----------------------------------------------------------------------------
(* More properties of the sequential runs (Spec).                          *)

C13_SetExtPost ==
    Stored("SetExt") =>
        LET o == last.pre
            x == last.call.ext
        IN /\ Cur.ext = x
           /\ Cur.cfg = o.cfg /\ Cur.bld = o.bld
           /\ Cur.preg = o.preg /\ Cur.pres = o.pres
           /\ IF o.preg
              THEN Cur.reg = o.reg /\ RegistryCalls = {}
              ELSE /\ RegistryCalls = {1}
                   /\ last.calls[1] = BuilderCall("BuildRegistry", o.bld, o.cfg, NULL,
                                                  o.reg, x, Cur.reg)
           /\ IF o.pres
              THEN Cur.res = o.res /\ ResolverCalls = {}
              ELSE /\ ResolverCalls = {Len(last.calls)}
                   /\ last.calls[Len(last.calls)] =
                          BuilderCall("BuildResolver", o.bld, o.cfg, Cur.reg,
                                      o.res, x, Cur.res)
           /\ (o.preg /\ o.pres) => (last.calls = <<>> /\ Cur = [o EXCEPT !.ext = x])

\* SetExt changed ext and the builder received the new value twice.
C13_Witness ==
    /\ Stored("SetExt")
    /\ last.call.ext # last.pre.ext
    /\ Len(last.calls) = 2
    /\ last.calls[1].ext = last.call.ext
    /\ last.calls[2].ext = last.call.ext

\* C14: after SetAll(cfg, ext, reg, res, bld), preg is true iff reg was
\* given and pres is true iff res was given, whatever the pins were; a nil
\* cfg or bld keeps the config or builder of before.
C14_SetAllPins ==
    Stored("SetAll") =>
        /\ Cur.preg = (last.call.reg # NULL)
        /\ Cur.pres = (last.call.res # NULL)
        /\ Cur.cfg = IF last.call.cfg = <<>> THEN last.pre.cfg ELSE last.call.cfg[1]
        /\ Cur.bld = IF last.call.bld = NoBuilder THEN last.pre.bld ELSE last.call.bld

\* SetAll with nothing but an ext cleared both pins and kept a non-default
\* config and the mock builder.
C14_Witness ==
    /\ Stored("SetAll")
    /\ last.pre.preg /\ last.pre.pres
    /\ last.call.reg = NULL /\ last.call.res = NULL
    /\ last.call.cfg = <<>> /\ last.call.bld = NoBuilder
    /\ ~Cur.preg /\ ~Cur.pres
    /\ Cur.cfg = TestConfig /\ Cur.bld = "mock"

C35_NilSettersNoOp ==
    (\/ last.call.name = "SetRegistry" /\ last.call.reg = NULL
     \/ last.call.name = "SetResolver" /\ last.call.res = NULL
     \/ last.call.name = "SetBuilder" /\ last.call.bld = NoBuilder) =>
        /\ last.outcome = "noop"
        /\ last.calls = <<>>
        /\ st = last.prePtr
        /\ Cur = last.pre

\* SetResolver(nil) returned on a state with an unpinned resolver.
C35_Witness ==
    /\ last.call.name = "SetResolver" /\ last.call.res = NULL
    /\ last.outcome = "noop"
    /\ ~Cur.pres /\ Cur.preg
    /\ Cur.cfg = TestConfig

----------------------------------------------------------------------------
(* Properties of the registry.                                             *)

\* The frames of finished calls of op whose pre-state was kept.
Observed(op) ==
    {g \in Goroutines :
        gor[g].op = op /\ gor[g].pc = "done" /\ gor[g].pre # NoPre}

\* The registry is as the call of g found it.
Untouched(g) ==
    /\ registry.m = gor[g].pre.m
    /\ registry.count = gor[g].pre.count

\* No goroutine is inside a call.
Quiet == \A g \in Goroutines : gor[g].pc \in {"idle", "done"}

\* C16: a Register call whose normalized type is already bound returns nil
\* when the name is the bound one and ErrConflictingRegistration when it is
\* another, and in both cases leaves the map and the counter as they were;
\* no type is bound to two names.
C16_RegisterIdempotent ==
    /\ \A g \in Observed("Register") :
         \A nz \in {Normalize(gor[g].t, registry.cfg)} :
            (gor[g].name # "" /\ nz.err = NoError /\ nz.t \in DOMAIN gor[g].pre.m)
                => /\ Untouched(g)
                   /\ gor[g].err = IF gor[g].pre.m[nz.t] = gor[g].name
                                   THEN NoError
                                   ELSE ErrConflictingRegistration
    /\ \A e1, e2 \in EntriesOf(registry.m) : e1.Type = e2.Type => e1.Name = e2.Name

C16_Witness ==
    \E g \in Observed("Register") :
        /\ gor[g].t = Ptr(TypeT)
        /\ gor[g].name = "b"
        /\ TypeT \in DOMAIN gor[g].pre.m
        /\ gor[g].pre.m[TypeT] = "a"
        /\ gor[g].err = ErrConflictingRegistration

\* C17: once racing Register calls for one normalized type have all
\* returned on a registry that was empty, one name is stored, the counter
\* is 1, the callers with the stored name got nil and the others
\* ErrConflictingRegistration.
C17_OneRegistrationWins ==
    (Quiet /\ \E g \in Goroutines : gor[g].pc = "done")
        => /\ DOMAIN registry.m = {TypeT}
           /\ registry.count = 1
           /\ \A g \in Goroutines :
                gor[g].pc = "done"
                    => gor[g].err = IF gor[g].name = registry.m[TypeT]
                                    THEN NoError
                                    ELSE ErrConflictingRegistration

C17_Witness ==
    /\ \A g \in Goroutines : gor[g].pc = "done"
    /\ {gor[g].name : g \in Goroutines} = {"a", "b"}
    /\ {gor[g].t : g \in Goroutines} = {TypeT, Ptr(TypeT)}
    /\ registry.m[TypeT] = "b"
    /\ registry.count = 1

\* C18: whenever r.mu is free, r.count is the number of types bound in r.m.
C18_CountMatchesMap ==
    registry.mu = NoOne => registry.count = Cardinality(DOMAIN registry.m)

\* C19: what a finished Entries call returns is the entry set the map had
\* at some instant between the call's entry and its return.
C19_EntriesPointInTime ==
    \A g \in Goroutines :
        (gor[g].op = "Entries" /\ gor[g].pc = "done")
            => gor[g].entries \in {EntriesOf(m) : m \in gor[g].during}

\* C20: a Lookup call leaves the map and the counter as they were and has
\* no error to return; it returns (name, true) when the normalized type is
\* bound to name, and ("", false) for a nil type, a type that does not
\* normalize, and an unbound type.
C20_LookupTotal ==
    \A g \in Observed("Lookup") :
        \A nz \in {Normalize(gor[g].t, registry.cfg)} :
            /\ Untouched(g)
            /\ gor[g].err = NoError
            /\ IF nz.err = NoError /\ nz.t \in DOMAIN registry.m
               THEN gor[g].ret = registry.m[nz.t] /\ gor[g].ok
               ELSE gor[g].ret = "" /\ ~gor[g].ok

C20_Witness ==
    \E g \in Observed("Lookup") :
        /\ gor[g].t = Ptr(Ptr(TypeT))
        /\ TypeT \in DOMAIN registry.m
        /\ Normalize(gor[g].t, registry.cfg).err = ErrReflectTypeNotNamed
        /\ gor[g].ret = ""
        /\ ~gor[g].ok


\* C21: Register returns ErrNilType for a nil type whatever the name,
\* ErrEmptyName for an empty name, and ErrReflectTypeNotNamed for a type
\* that does not normalize under the registry's config; the map and the
\* counter are then as they were.
C21_RegisterErrors ==
    \A g \in Observed("Register") :
        /\ gor[g].t = NilType => (gor[g].err = ErrNilType /\ Untouched(g))
        /\ (gor[g].t # NilType /\ gor[g].name = "")
              => (gor[g].err = ErrEmptyName /\ Untouched(g))
        /\ (gor[g].t # NilType /\ gor[g].name # ""
              /\ Normalize(gor[g].t, registry.cfg).err # NoError)
              => (gor[g].err = ErrReflectTypeNotNamed /\ Untouched(g))

C21_Witness ==
    \E g \in Observed("Register") :
        /\ gor[g].t = NilType
        /\ gor[g].name = ""
        /\ gor[g].err = ErrNilType
        /\ gor[g].pre.count > 0

\* C22: after Register(t1, n) returned nil and as long as Reset is not
\* called, Lookup(t2) returns (n, true) for every t2 that normalizes, under
\* the registry's config, to what t1 normalizes to.
C22_LookupAfterRegister ==
    \A g \in Observed("Lookup") :
        (/\ probe.fn = "Registered"
         /\ Normalize(gor[g].t, registry.cfg).err = NoError
         /\ Normalize(gor[g].t, registry.cfg) = Normalize(probe.t, registry.cfg))
            => (gor[g].ret = probe.name /\ gor[g].ok)

C22_Witness ==
    \E g \in Observed("Lookup") :
        /\ probe = [fn |-> "Registered", t |-> Ptr(TypeT), name |-> "b"]
        /\ gor[g].t = MapOf(Named("string"), TypeT)
        /\ gor[g].ret = "b"
        /\ gor[g].ok

----------------------------------------------------------------------------
(* Properties of Normalize.                                                *)

\* The finished Normalize call, if there is one.
Normalized == probe.fn = "Normalize"

C24_MapPreference ==
    (Normalized /\ probe.t = MapOf(TypeK, TypeV))
        => probe.out = IF probe.cfg.MapPreferElem THEN Found(TypeV) ELSE Found(TypeK)

C24_Witness ==
    /\ Normalized
    /\ probe.t = MapOf(TypeK, TypeV)
    /\ ~probe.cfg.MapPreferElem
    /\ probe.out = Found(TypeK)

\* C25: for a map type with exactly one named side, Normalize returns that
\* side whatever MapPreferElem is.
C25_MapNamedSide ==
    Normalized
        => \A k, e \in MapSides :
              (probe.t = MapOf(k, e) /\ (k.name = "") # (e.name = ""))
                 => probe.out = Found(IF k.name # "" THEN k ELSE e)

C25_Witness ==
    /\ Normalized
    /\ probe.t = MapOf(TypeK, Ptr(TypeV))
    /\ probe.cfg.MapPreferElem
    /\ probe.out = Found(TypeK)

\* The budget Normalize works with.
Budget(cfg) == IF cfg.MaxUnwrap <= 0 THEN DefaultMaxUnwrap ELSE cfg.MaxUnwrap

\* C32: for a map type with neither side named, Normalize goes on with the
\* element type, never the key, for both values of MapPreferElem, and the
\* map step uses up one unit of the budget: the result is that of the
\* element type under the budget less one, ErrReflectTypeNotNamed when
\* nothing is left.
C32_UnnamedMapContinuesWithElem ==
    Normalized
        => \A k, e \in MapSides :
              (probe.t = MapOf(k, e) /\ k.name = "" /\ e.name = "")
                 => probe.out =
                       IF Budget(probe.cfg) = 1 \/ e = Anon
                       THEN Failed(ErrReflectTypeNotNamed)
                       ELSE Found(e.elem)

C32_Witness ==
    /\ Normalized
    /\ probe.t = MapOf(Ptr(TypeK), Ptr(TypeV))
    /\ ~probe.cfg.MapPreferElem
    /\ probe.cfg.MaxUnwrap = 2
    /\ probe.out = Found(TypeV)

\* C33: a budget of zero or less is replaced by the default 8: Normalize
\* returns what the loop returns under the budget 8, and registry.New keeps
\* the config with MaxUnwrap set to 8, which Register and Lookup then use.
C33_BudgetClamped ==
    /\ (Normalized /\ probe.cfg.MaxUnwrap <= 0)
          => probe.out = IF probe.t = NilType
                         THEN Failed(ErrReflectNilType)
                         ELSE Unwrap(probe.t, 0, 8, probe.cfg.MapPreferElem)
    /\ (probe.fn = "New" /\ probe.cfg.MaxUnwrap <= 0)
          => /\ probe.out.cfg = [probe.cfg EXCEPT !.MaxUnwrap = 8]
             /\ probe.out.m = EmptyMap
             /\ probe.out.count = 0

C33_Witness ==
    /\ Normalized
    /\ probe.cfg.MaxUnwrap = 0
    /\ probe.t = Ptr(Slice(Chan(TypeT)))
    /\ probe.out = Found(TypeT)

\* C38: Normalize is idempotent: a type it returns is returned unchanged
\* when it is normalized again, under every config, also when it is a
\* declared type of container kind.
C38_NormalizeIdempotent ==
    (Normalized /\ probe.out.err = NoError)
        => \A c \in NormalizeConfigs : Normalize(probe.out.t, c) = Found(probe.out.t)

----------------------------------------------------------------------------
(* Properties of the resolver chain and of the strategies.                 *)

\* q without its nil strategies.
RECURSIVE NonNil(_)
NonNil(q) ==
    IF q = <<>> THEN <<>>
    ELSE IF Head(q) = NilStrategy THEN NonNil(Tail(q))
    ELSE <<Head(q)>> \o NonNil(Tail(q))

\* What strategy i of the finished resolve call answers on the state the
\* call started from.
Answer(i) == Try(probe.strats[i], probe.in, probe.cfg, probe.reg, probe.pre)

Handlers == {i \in DOMAIN probe.strats : Answer(i).ok}

\* C26: the resolver holds the given strategies without the nil ones, in
\* the given order; a resolve call tries them in that order up to the first
\* that handles and returns its name, or tries all and returns "".
C26_FirstHandlerWins ==
    probe.fn = "Resolve"
        => /\ probe.strats = NonNil(probe.given)
           /\ ~probe.panic
           /\ IF Handlers = {}
              THEN probe.name = "" /\ probe.called = probe.strats
              ELSE /\ probe.name = Answer(Min(Handlers)).name
                   /\ probe.called = SubSeq(probe.strats, 1, Min(Handlers))

C26_Witness ==
    /\ probe.fn = "Resolve"
    /\ probe.given = <<NilStrategy, RegistryStrategy(RegistryAddr), ReflectStrategy>>
    /\ probe.in = ByType(TypeA)
    /\ probe.called = <<RegistryStrategy(RegistryAddr)>>
    /\ probe.name = "domain.A"

\* C27: on the default builder's chain, Resolve of a self-naming value
\* returns what the value reports, and ResolveType returns the registered
\* name of a registered type and the reflect strategy's name of any other.
C27_NamerWinsByValueOnly ==
    (probe.fn = "Resolve" /\ probe.given = DefaultChain(RegistryAddr))
        => /\ (~probe.in.typed /\ probe.in.v.namer)
                 => probe.name = probe.in.v.entityName
           /\ (probe.in.typed /\ probe.in.t # NilType)
                 => /\ probe.called[1] = NamerStrategy
                    /\ probe.name =
                          IF Lookup(probe.reg, probe.in.t).ok
                          THEN Lookup(probe.reg, probe.in.t).v
                          ELSE byType(probe.in.t, probe.cfg, probe.pre).name

C27_Witness ==
    /\ probe.fn = "Resolve"
    /\ probe.given = DefaultChain(RegistryAddr)
    /\ probe.in = ByValue(SelfNamed(TypeA, "custom.A"))
    /\ Lookup(probe.reg, TypeA) = [v |-> "domain.A", ok |-> TRUE]
    /\ probe.name = "custom.A"

\* A finished call of the reflect strategy, and its type argument.
Reflected == probe.fn = "Try" /\ probe.s = ReflectStrategy

ReflectedType == IF probe.in.typed THEN probe.in.t ELSE probe.in.v.type

\* C28 as claimed: the reflect strategy handles every value and every type.
C28_ReflectAlwaysHandles == Reflected => probe.ok

\* C28: the reflect strategy handles every value and every type but nil,
\* with an empty name or not; for the nil value and the nil type it declines
\* with an empty name.
C28_ReflectHandlesNonNil ==
    Reflected
        => /\ probe.ok = (ReflectedType # NilType)
           /\ ReflectedType = NilType => probe.name = ""

C28_Witness ==
    /\ Reflected
    /\ probe.in = ByType(Anon)
    /\ probe.ok
    /\ probe.name = ""

\* The name C29 gives the declared type n under cfg.
Qualified(n, cfg) ==
    CHOOSE x \in {IF pkg # <<>> THEN pkg[Len(pkg)] \o "." \o base
                  ELSE IF cfg.IncludeBuiltins THEN base ELSE "" :
                     pkg \in {StrategyPkg, <<>>}, base \in {"A", "G", "int"}} :
        \E pkg \in {StrategyPkg, <<>>}, base \in {"A", "G", "int"},
           targs \in {<<>>, <<"int">>} :
            /\ n = Declared(pkg, base, targs)
            /\ x = IF pkg # <<>> THEN pkg[Len(pkg)] \o "." \o base
                   ELSE IF cfg.IncludeBuiltins THEN base ELSE ""

\* C29: the reflect strategy returns, for a type that normalizes to N,
\* "<last element of N's package path>.<N's name up to the first '['>", or
\* for an N without package N's name when IncludeBuiltins is set and ""
\* when it is not; for a type that does not normalize it returns "".
C29_ReflectName ==
    (Reflected /\ ReflectedType # NilType)
        => probe.name =
              IF Normalize(ReflectedType, probe.cfg).err # NoError THEN ""
              ELSE Qualified(Normalize(ReflectedType, probe.cfg).t, probe.cfg)

\* C30: what the reflect strategy returns is what byType computes on an
\* empty memo, whatever the memo holds.
C30_MemoTransparent ==
    (Reflected /\ ReflectedType # NilType)
        => probe.name = byType(ReflectedType, probe.cfg, EmptyMap).name

\* C40: a value whose EntityName() returns "" is still handled by the namer
\* strategy: Resolve on the default builder's chain returns "" and calls
\* neither the registry strategy nor the reflect strategy, also when the
\* type of the value is registered.
C40_EmptySelfNameHandled ==
    (/\ probe.fn = "Resolve"
     /\ probe.given = DefaultChain(RegistryAddr)
     /\ ~probe.in.typed
     /\ probe.in.v # NilValue
     /\ probe.in.v.namer
     /\ probe.in.v.entityName = "")
        => /\ Answer(1).ok
           /\ probe.name = ""
           /\ probe.called = <<NamerStrategy>>

C40_Witness ==
    /\ probe.fn = "Resolve"
    /\ probe.given = DefaultChain(RegistryAddr)
    /\ probe.in = ByValue(SelfNamed(TypeA, ""))
    /\ Lookup(probe.reg, TypeA) = [v |-> "domain.A", ok |-> TRUE]
    /\ probe.name = ""
    /\ probe.called = <<NamerStrategy>>

----------------------------------------------------------------------------
(* Properties of the package run with builder.New().                       *)

\* The BuildRegistry call a write made, if it made one.
Built == rfx.w.build # NoBuild

\* A declared type that is no container.
PlainNamed(t) == t.kind = "struct" /\ t.name # ""

\* C31: the default builder's BuildRegistry(cfg, prev, ext) returns a new
\* registry, not prev, that holds every entry of prev.Entries() and has the
\* Count of prev; prev is left as it was.
C31_BuildRegistryCopies ==
    Built =>
        /\ rfx.w.build.nreg # rfx.w.build.prev
        /\ EntriesOf(rfx.w.build.before.m) \subseteq EntriesOf(rfx.w.build.after.m)
        /\ rfx.w.build.after.count = rfx.w.build.before.count
        /\ rfx.regs[rfx.w.build.prev] = rfx.w.build.before

\* C36: in a run of one goroutine that calls SetConfig, SetExt, the pin and
\* unpin calls, RegisterType and EntityType, once RegisterType(T, n) has
\* returned nil for a declared type T that is no container, every later
\* EntityType(T) returns n.
C36_RegisteredNameStays ==
    probe.fn = "EntityType" =>
        \A e \in rfx.ok :
            (e.t = probe.t /\ PlainNamed(e.t)) => probe.name = e.name

\* C37: when RegisterType(T, n) has returned nil and the SetConfig call of
\* the other goroutine has returned too, the registry of the published
\* state binds T to n and EntityType(T) returns n.
C37_NoLostRegistration ==
    (/\ rfx.w.pc = "done"
     /\ rfx.r.pc = "done"
     /\ rfx.r.err = NoError)
        => /\ Lookup(rfx.regs[rfx.st.reg], rfx.r.t) = [v |-> rfx.r.name, ok |-> TRUE]
           /\ (probe.fn = "EntityType" /\ Normalize(probe.t, DefaultConfig) = Normalize(rfx.r.t, DefaultConfig))
                 => probe.name = rfx.r.name

====
